---- MODULE Spec2Model ----
(***************************************************************************)
(* hgnc-go: the in-memory HGNC database built by LoadTsv (hgnc.go) and     *)
(* queried by Fetch / Lookup (search.go) through normalizeSymbol (norm.go).*)
(*                                                                         *)
(* Strings are sequences of one-character strings, "" is <<>>.  A *Record  *)
(* handed out by Fetch is identified by its 0-based position in h.records. *)
(***************************************************************************)
EXTENDS Integers, Sequences, FiniteSets, TLC

VARIABLES
    pc,              \* where LoadTsv is: "start", "rows", "ready" (it returned h, nil),
                     \* "open_err", "header_err", "scan_err" (it returned nil, err)
    headerMap,       \* LoadTsv's headerMap: field name -> 0-based column
    records,         \* h.records
    geneSymbolMap,   \* h.geneSymbolMap (the Alias Map)
    stdHgncSymbols,  \* h.stdHgncSymbols (the Canonical-Symbol Set)
    caches,          \* h.caches
    autoNormSymbol,  \* h.autoNormSymbol
    recordIdx,       \* LoadTsv's recordIdx
    last,            \* the last call made on the handle and what it returned
    th               \* the calls in flight on the caller's threads

vars == <<pc, headerMap, records, geneSymbolMap, stdHgncSymbols, caches,
          autoNormSymbol, recordIdx, last, th>>

db == <<records, geneSymbolMap, stdHgncSymbols, caches>>

----------------------------------------------------------------------------
(* Bounds of the model *)

\* the number of data rows LoadTsv reads
MaxRows == 2

\* the number of threads calling Fetch and Lookup at once
NumThreads == 2

\* the length of the raw cells passed through line2Record
MaxCell == 4

----------------------------------------------------------------------------
(* Characters and strings *)

SP == " "
TAB == "\t"
PIPE == "|"
COMMA == ","
QUOTE == "\""

\* the characters strings.TrimSpace removes that occur in the model
WhiteSpace == {SP, TAB, "\n", "\r"}

EMPTY == <<>>

Min(S) == CHOOSE x \in S : \A y \in S : x <= y
Max(S) == CHOOSE x \in S : \A y \in S : x >= y

\* strings.Trim(s, cutset): drop every leading and trailing character of cutset
Trim(s, cutset) ==
    LET keep == {i \in 1..Len(s) : s[i] \notin cutset}
    IN  IF keep = {} THEN EMPTY ELSE SubSeq(s, Min(keep), Max(keep))

\* strings.TrimSpace(s)
TrimSpace(s) == Trim(s, WhiteSpace)

\* strings.Split(s, sep) for a one-character sep: n separators give n+1 pieces
RECURSIVE Split(_, _)
Split(s, sep) ==
    LET at == {i \in 1..Len(s) : s[i] = sep}
    IN  IF at = {} THEN <<s>>
        ELSE <<SubSeq(s, 1, Min(at) - 1)>> \o Split(SubSeq(s, Min(at) + 1, Len(s)), sep)

\* the inverse of Split, used to write the input lines
RECURSIVE Join(_, _)
Join(parts, sep) ==
    IF Len(parts) = 0 THEN EMPTY
    ELSE IF Len(parts) = 1 THEN parts[1]
    ELSE parts[1] \o <<sep>> \o Join(Tail(parts), sep)

----------------------------------------------------------------------------
(* Fields *)

FIELD_HGNC_ID == "hgnc_id"
FIELD_SYMBOL == "symbol"
FIELD_ENTREZ_ID == "entrez_id"
FIELD_ENSEMBL_GENE_ID == "ensembl_gene_id"
FIELD_UCSC_ID == "ucsc_id"
FIELD_REFSEQ_ACCESSION == "refseq_accession"
FIELD_OMIM_ID == "omim_id"
FIELD_LOCUS_GROUP == "locus_group"
FIELD_ALIAS_SYMBOL == "alias_symbol"
FIELD_PREV_SYMBOL == "prev_symbol"
FIELD_MANE_SELECT == "mane_select"

indexedFields ==
    <<FIELD_HGNC_ID, FIELD_SYMBOL, FIELD_ENTREZ_ID, FIELD_ENSEMBL_GENE_ID,
      FIELD_UCSC_ID, FIELD_REFSEQ_ACCESSION, FIELD_OMIM_ID>>

IndexedSet == {indexedFields[i] : i \in 1..Len(indexedFields)}

Fields ==
    IndexedSet \cup {FIELD_LOCUS_GROUP, FIELD_ALIAS_SYMBOL, FIELD_PREV_SYMBOL,
                     FIELD_MANE_SELECT}

\* record.data[field]: a Go map read, the zero value "" for a missing key
Get(record, field) == IF field \in DOMAIN record THEN record[field] ELSE EMPTY

----------------------------------------------------------------------------
(* The input file *)

\* the header line of the file, split on tabs
Header == <<FIELD_SYMBOL, FIELD_ALIAS_SYMBOL, FIELD_PREV_SYMBOL, FIELD_ENTREZ_ID>>

\* raw cells of the data rows, column by column
SymbolCells == {EMPTY, <<"A">>, <<"B">>}
AliasCells == {EMPTY, <<"B", PIPE, PIPE, SP, "C">>}
EntrezCells == {<<"1">>}

\* rows with every column, the previous-symbol cell empty
FullLines ==
    {Join(<<s, a, EMPTY, e>>, TAB) :
        s \in SymbolCells, a \in AliasCells, e \in EntrezCells}

\* rows with trailing columns missing, with quoted cells, with padded cells
OddLines ==
    {EMPTY,
     <<"A">>,
     <<SP, "B", TAB, "B", PIPE, PIPE, SP, "C">>,
     <<QUOTE, "A", QUOTE, TAB, TAB, SP, "C", SP>>,
     <<"B", TAB, TAB, "C", TAB, QUOTE, "1", QUOTE>>}

Lines == FullLines \cup OddLines

----------------------------------------------------------------------------
(* LoadTsv *)

\* hgnc.go:72-75: for i, field := range strings.Split(headerLine, "\t")
HeaderMapOf(header) ==
    [f \in {header[i] : i \in 1..Len(header)} |->
        Max({i \in 1..Len(header) : header[i] = f}) - 1]

\* line2Record without the else branch of hgnc.go:152-154: a field whose
\* column the line lacks gets no entry
line2Record_SkipMissing(line, hm) ==
    LET l == Split(line, TAB)
    IN  [fieldName \in {f \in DOMAIN hm : hm[f] < Len(l)} |->
            TrimSpace(Trim(l[hm[fieldName] + 1], {QUOTE}))]

\* hgnc.go:138-158
line2Record(line, hm) ==
    LET l == Split(line, TAB)
    IN  [fieldName \in DOMAIN hm |->
            IF hm[fieldName] < Len(l)
            THEN TrimSpace(Trim(l[hm[fieldName] + 1], {QUOTE}))
            ELSE EMPTY]

\* AddSymbols with a map write that keeps an entry already present
RECURSIVE AddSymbols_KeepFirst(_, _, _)
AddSymbols_KeepFirst(m, tokens, symbol) ==
    IF tokens = <<>> THEN m
    ELSE LET alias == TrimSpace(Head(tokens))
         IN  AddSymbols_KeepFirst(IF alias # EMPTY THEN m @@ (alias :> symbol) ELSE m,
                                  Tail(tokens), symbol)

\* hgnc.go:93-98 and 101-106: one pass over the tokens of a cell
RECURSIVE AddSymbols(_, _, _)
AddSymbols(m, tokens, symbol) ==
    IF tokens = <<>> THEN m
    ELSE LET alias == TrimSpace(Head(tokens))
         IN  AddSymbols(IF alias # EMPTY THEN (alias :> symbol) @@ m ELSE m,
                        Tail(tokens), symbol)

\* AddRecordSymbols taking the comma for a separator as well as the pipe
AddRecordSymbols_SplitComma(m, record) ==
    LET aliasSymbolStr == [i \in 1..Len(Get(record, FIELD_ALIAS_SYMBOL)) |->
                              IF Get(record, FIELD_ALIAS_SYMBOL)[i] = COMMA THEN PIPE
                              ELSE Get(record, FIELD_ALIAS_SYMBOL)[i]]
        prevSymbolStr == Get(record, FIELD_PREV_SYMBOL)
        symbol == Get(record, FIELD_SYMBOL)
        m1 == IF aliasSymbolStr # EMPTY
              THEN AddSymbols(m, Split(aliasSymbolStr, PIPE), symbol) ELSE m
    IN  IF prevSymbolStr # EMPTY
        THEN AddSymbols(m1, Split(prevSymbolStr, PIPE), symbol) ELSE m1

\* hgnc.go:89-107: the alias cell, then the previous-symbol cell
AddRecordSymbols(m, record) ==
    LET aliasSymbolStr == Get(record, FIELD_ALIAS_SYMBOL)
        prevSymbolStr == Get(record, FIELD_PREV_SYMBOL)
        symbol == Get(record, FIELD_SYMBOL)
        m1 == IF aliasSymbolStr # EMPTY
              THEN AddSymbols(m, Split(aliasSymbolStr, PIPE), symbol) ELSE m
    IN  IF prevSymbolStr # EMPTY
        THEN AddSymbols(m1, Split(prevSymbolStr, PIPE), symbol) ELSE m1

\* CacheAdd without the skip of the empty value of hgnc.go:115-117
CacheAdd_NoSkip(cs, field, value, idx) ==
    IF value \notin DOMAIN cs[field]
    THEN [cs EXCEPT ![field] = (value :> <<idx>>) @@ @]
    ELSE [cs EXCEPT ![field] = [@ EXCEPT ![value] = Append(@, idx)]]

\* CacheAdd that counts the records from 1
CacheAdd_OneBased(cs, field, value, idx) ==
    IF value = EMPTY THEN cs
    ELSE IF value \notin DOMAIN cs[field]
    THEN [cs EXCEPT ![field] = (value :> <<idx + 1>>) @@ @]
    ELSE [cs EXCEPT ![field] = [@ EXCEPT ![value] = Append(@, idx + 1)]]

\* CacheAdd that puts recordIdx in front of the list instead of appending it
CacheAdd_Prepend(cs, field, value, idx) ==
    IF value = EMPTY THEN cs
    ELSE IF value \notin DOMAIN cs[field]
    THEN [cs EXCEPT ![field] = (value :> <<idx>>) @@ @]
    ELSE [cs EXCEPT ![field] = [@ EXCEPT ![value] = <<idx>> \o @]]

\* CacheAdd that assigns []int{recordIdx} in both branches
CacheAdd_Overwrite(cs, field, value, idx) ==
    IF value = EMPTY THEN cs
    ELSE [cs EXCEPT ![field] = (value :> <<idx>>) @@ @]

\* hgnc.go:115-125: one field of one record
CacheAdd(cs, field, value, idx) ==
    IF value = EMPTY THEN cs
    ELSE IF value \notin DOMAIN cs[field]
    THEN [cs EXCEPT ![field] = (value :> <<idx>>) @@ @]
    ELSE [cs EXCEPT ![field] = [@ EXCEPT ![value] = Append(@, idx)]]

\* hgnc.go:110-126: for _, field := range indexedFields, from the k-th on
RECURSIVE IndexRecord(_, _, _, _)
IndexRecord(cs, record, idx, k) ==
    IF k > Len(indexedFields) THEN cs
    ELSE IndexRecord(CacheAdd(cs, indexedFields[k], Get(record, indexedFields[k]), idx),
                     record, idx, k + 1)

\* a thread that is in no call
Idle == [pc |-> "idle", op |-> "none", value |-> EMPTY, query |-> "", target |-> "",
         key |-> EMPTY, todo |-> <<>>, i |-> 0, acc |-> <<>>, raced |-> FALSE,
         alone |-> <<>>]

Threads == 1..NumThreads

\* op(value, query, target) was called with the flag at norm; key is the value
\* after the symbol step; it returned recs (Fetch), vals (Lookup), or str and
\* found (the wrappers of hgnc.go; IsCodingGene's bool is found); for LoadTsv
\* vals are the lines read so far, found says that the handle returned is not
\* nil, and str is the error returned (empty: nil, or not returned yet)
NoCall == [op |-> "none", value |-> EMPTY, query |-> "", target |-> "",
           norm |-> TRUE, key |-> EMPTY, recs |-> <<>>, vals |-> <<>>,
           str |-> EMPTY, found |-> FALSE, toggle |-> <<>>]

\* toggle holds the argument of the latest SetAutoNormSymbol call (none yet:
\* empty); every call record carries it on
Carried == [NoCall EXCEPT !.toggle = last.toggle]

\* a non-nil error
Err == <<"e", "r", "r">>

LoadCall(lines, handle, err) ==
    [NoCall EXCEPT !.op = "LoadTsv", !.vals = lines, !.found = handle, !.str = err]

\* hgnc.go:31-45: the handle LoadTsv starts from
Init ==
    /\ pc = "start"
    /\ headerMap = <<>>
    /\ records = <<>>
    /\ geneSymbolMap = <<>>
    /\ stdHgncSymbols = {}
    /\ caches = [f \in IndexedSet |-> <<>>]
    /\ autoNormSymbol = TRUE
    /\ recordIdx = 0
    /\ last = NoCall
    /\ th = [t \in Threads |-> Idle]

\* hgnc.go:48-65: the file cannot be opened or is no gzip stream
OpenFail ==
    /\ pc = "start"
    /\ pc' = "open_err"
    /\ last' = LoadCall(<<>>, FALSE, Err)
    /\ UNCHANGED <<headerMap, records, geneSymbolMap, stdHgncSymbols, caches,
                   autoNormSymbol, recordIdx, th>>

\* hgnc.go:68-70: no header line
HeaderFail ==
    /\ pc = "start"
    /\ pc' = "header_err"
    /\ last' = LoadCall(<<>>, FALSE, Err)
    /\ UNCHANGED <<headerMap, records, geneSymbolMap, stdHgncSymbols, caches,
                   autoNormSymbol, recordIdx, th>>

\* hgnc.go:68-78
ReadHeader(header) ==
    /\ pc = "start"
    /\ headerMap' = HeaderMapOf(header)
    /\ pc' = "rows"
    /\ last' = LoadCall(<<>>, FALSE, EMPTY)
    /\ UNCHANGED <<records, geneSymbolMap, stdHgncSymbols, caches,
                   autoNormSymbol, recordIdx, th>>

\* hgnc.go:79-128: one turn of the loop, scanner.Scan() having produced line
LoadRow(line) ==
    /\ pc = "rows"
    /\ recordIdx < MaxRows
    /\ LET record == line2Record(line, headerMap)
       IN  /\ records' = Append(records, record)
           /\ stdHgncSymbols' = stdHgncSymbols \cup {Get(record, FIELD_SYMBOL)}
           /\ geneSymbolMap' = AddRecordSymbols(geneSymbolMap, record)
           /\ caches' = IndexRecord(caches, record, recordIdx, 1)
    /\ recordIdx' = recordIdx + 1
    /\ last' = LoadCall(Append(last.vals, line), FALSE, EMPTY)
    /\ UNCHANGED <<pc, headerMap, autoNormSymbol, th>>

\* a LoadTsv that hands out what it has built along with the scanner's error
LoadFail_KeepsHandle ==
    /\ pc = "rows"
    /\ pc' = "ready"
    /\ last' = LoadCall(last.vals, TRUE, Err)
    /\ UNCHANGED <<headerMap, records, geneSymbolMap, stdHgncSymbols, caches,
                   autoNormSymbol, recordIdx, th>>

\* hgnc.go:130-132: scanner.Err() after the loop
LoadFail ==
    /\ pc = "rows"
    /\ pc' = "scan_err"
    /\ last' = LoadCall(last.vals, FALSE, Err)
    /\ UNCHANGED <<headerMap, records, geneSymbolMap, stdHgncSymbols, caches,
                   autoNormSymbol, recordIdx, th>>

\* hgnc.go:134: return h, nil
LoadDone ==
    /\ pc = "rows"
    /\ pc' = "ready"
    /\ last' = LoadCall(last.vals, TRUE, EMPTY)
    /\ UNCHANGED <<headerMap, records, geneSymbolMap, stdHgncSymbols, caches,
                   autoNormSymbol, recordIdx, th>>

----------------------------------------------------------------------------
(* Queries *)

\* norm.go:6-20, enabled being the value read from h.autoNormSymbol at line 9
normalizeGiven(enabled, symbol) ==
    LET trimmed == TrimSpace(symbol)
    IN  IF ~enabled THEN trimmed
        ELSE IF trimmed \in stdHgncSymbols THEN trimmed
        ELSE IF trimmed \in DOMAIN geneSymbolMap THEN geneSymbolMap[trimmed]
        ELSE trimmed

\* normalizeSymbol that consults the Alias Map before the Canonical-Symbol Set
normalizeSymbol_AliasFirst(symbol) ==
    LET trimmed == TrimSpace(symbol)
    IN  IF ~autoNormSymbol THEN trimmed
        ELSE IF trimmed \in DOMAIN geneSymbolMap THEN geneSymbolMap[trimmed]
        ELSE trimmed

\* normalizeSymbol without the early return for a disabled flag
normalizeSymbol_IgnoreFlag(symbol) == normalizeGiven(TRUE, symbol)

\* normalizeSymbol with the test of the flag inverted
normalizeSymbol_InvertedFlag(symbol) == normalizeGiven(~autoNormSymbol, symbol)

\* a normalizer that hands back an unknown string as it came, untrimmed
normalizeSymbol_UnknownAsGiven(symbol) ==
    IF TrimSpace(symbol) \in stdHgncSymbols \cup DOMAIN geneSymbolMap
    THEN normalizeGiven(autoNormSymbol, symbol)
    ELSE symbol

\* a normalizer that looks the alias's symbol up in the Alias Map once more
normalizeSymbol_FollowChain(symbol) ==
    LET trimmed == TrimSpace(symbol)
    IN  IF ~autoNormSymbol THEN trimmed
        ELSE IF trimmed \in stdHgncSymbols THEN trimmed
        ELSE IF trimmed \in DOMAIN geneSymbolMap
        THEN IF geneSymbolMap[trimmed] \in DOMAIN geneSymbolMap
             THEN geneSymbolMap[geneSymbolMap[trimmed]]
             ELSE geneSymbolMap[trimmed]
        ELSE trimmed

\* norm.go:6-20
normalizeSymbol(symbol) == normalizeGiven(autoNormSymbol, symbol)

\* a symbol step taken whatever the query field
QueryKey_EveryField(value, query) == normalizeSymbol(value)

\* search.go:15-17 and 53-55: the value looked up after the symbol step
QueryKey(value, query) ==
    IF query = FIELD_SYMBOL THEN normalizeSymbol(value) ELSE value

\* search.go:32-36: the positions a scan of h.records keeps, from position p on
RECURSIVE ScanFrom(_, _, _)
ScanFrom(p, query, value) ==
    IF p >= Len(records) THEN <<>>
    ELSE (IF Get(records[p + 1], query) = value THEN <<p>> ELSE <<>>)
         \o ScanFrom(p + 1, query, value)

\* a search that scans h.records whatever the field, reading no index
FetchByKey_ScanOnly(v, query) == ScanFrom(0, query, v)

\* search.go:19-38: the records found for the key v, as positions in h.records
FetchByKey(v, query) ==
    IF query \in DOMAIN caches
    THEN IF v \in DOMAIN caches[query]
         THEN LET indexes == caches[query][v]
              IN  [i \in 1..Len(indexes) |-> indexes[i]]
         ELSE <<>>
    ELSE ScanFrom(0, query, v)

\* Fetch without the empty-value return of search.go:11-13
FetchResult_NoShortCircuit(value, query) ==
    FetchByKey(QueryKey(value, query), query)

\* Fetch without the symbol step of search.go:15-17
FetchResult_RawValue(value, query) ==
    IF value = EMPTY THEN <<>> ELSE FetchByKey(value, query)

\* search.go:5-39: the records returned, as positions in h.records
FetchResult(value, query) ==
    IF value = EMPTY THEN <<>> ELSE FetchByKey(QueryKey(value, query), query)

\* search.go:72-78: the target values a scan of h.records collects
RECURSIVE ScanValuesFrom(_, _, _, _)
ScanValuesFrom(p, query, value, target) ==
    IF p >= Len(records) THEN <<>>
    ELSE (IF Get(records[p + 1], query) = value
          THEN <<Get(records[p + 1], target)>> ELSE <<>>)
         \o ScanValuesFrom(p + 1, query, value, target)

\* search.go:57-79: the target values found for the key v
LookupByKey(v, query, target) ==
    IF query \in DOMAIN caches
    THEN IF v \in DOMAIN caches[query]
         THEN LET indexes == caches[query][v]
              IN  [i \in 1..Len(indexes) |-> Get(records[indexes[i] + 1], target)]
         ELSE <<>>
    ELSE ScanValuesFrom(0, query, v, target)

\* Lookup that appends a target value only when the record has one
LookupResult_SkipEmpty(value, query, target) ==
    IF value = EMPTY THEN <<>>
    ELSE SelectSeq(LookupByKey(QueryKey(value, query), query, target),
                   LAMBDA x : x # EMPTY)

\* search.go:43-80
LookupResult(value, query, target) ==
    IF value = EMPTY THEN <<>>
    ELSE LookupByKey(QueryKey(value, query), query, target)

\* the query fields, the values passed for each, and the target fields
QueryFields == {FIELD_SYMBOL, FIELD_ENTREZ_ID, FIELD_PREV_SYMBOL}
QueryValues(query) ==
    CASE query = FIELD_SYMBOL ->
            {EMPTY, <<SP>>, <<"A">>, <<SP, "A">>, <<"B">>, <<"C">>}
      [] query = FIELD_ENTREZ_ID -> {EMPTY, <<"1">>, <<SP, "1">>}
      [] OTHER -> {EMPTY, <<"C">>, <<SP, "C">>}
TargetFields == {FIELD_ENTREZ_ID, FIELD_LOCUS_GROUP}

\* a setter that can switch normalization on but never off
SetAutoNormSymbol_OnlyEnable(b) ==
    /\ pc = "ready"
    /\ autoNormSymbol' = (autoNormSymbol \/ b)
    /\ last' = [Carried EXCEPT !.op = "SetAutoNormSymbol", !.norm = b,
                               !.toggle = <<b>>]
    /\ UNCHANGED <<pc, headerMap, records, geneSymbolMap, stdHgncSymbols, caches,
                   recordIdx, th>>

\* hgnc.go:23-25
SetAutoNormSymbol(b) ==
    /\ pc = "ready"
    /\ autoNormSymbol' = b
    /\ last' = [Carried EXCEPT !.op = "SetAutoNormSymbol", !.norm = b,
                               !.toggle = <<b>>]
    /\ UNCHANGED <<pc, headerMap, records, geneSymbolMap, stdHgncSymbols, caches,
                   recordIdx, th>>

\* search.go:5-39
\* a Fetch that remembers, in the Alias Map, what the symbol resolved to
Fetch_Memoize(value, query) ==
    /\ pc = "ready"
    /\ last' = [Carried EXCEPT !.op = "Fetch", !.value = value, !.query = query,
                              !.norm = autoNormSymbol,
                              !.key = IF value = EMPTY THEN EMPTY
                                      ELSE QueryKey(value, query),
                              !.recs = FetchResult(value, query)]
    /\ geneSymbolMap' = IF query = FIELD_SYMBOL /\ value # EMPTY
                        THEN (TrimSpace(value) :> normalizeSymbol(value)) @@ geneSymbolMap
                        ELSE geneSymbolMap
    /\ UNCHANGED <<pc, headerMap, records, stdHgncSymbols, caches,
                   autoNormSymbol, recordIdx, th>>

\* search.go:5-39
Fetch(value, query) ==
    /\ pc = "ready"
    /\ last' = [Carried EXCEPT !.op = "Fetch", !.value = value, !.query = query,
                              !.norm = autoNormSymbol,
                              !.key = IF value = EMPTY THEN EMPTY
                                      ELSE QueryKey(value, query),
                              !.recs = FetchResult(value, query)]
    /\ UNCHANGED <<pc, headerMap, records, geneSymbolMap, stdHgncSymbols, caches,
                   autoNormSymbol, recordIdx, th>>

\* search.go:43-80
Lookup(value, query, target) ==
    /\ pc = "ready"
    /\ last' = [Carried EXCEPT !.op = "Lookup", !.value = value, !.query = query,
                              !.target = target, !.norm = autoNormSymbol,
                              !.key = IF value = EMPTY THEN EMPTY
                                      ELSE QueryKey(value, query),
                              !.vals = LookupResult(value, query, target)]
    /\ UNCHANGED <<pc, headerMap, records, geneSymbolMap, stdHgncSymbols, caches,
                   autoNormSymbol, recordIdx, th>>

Next ==
    \/ OpenFail
    \/ HeaderFail
    \/ ReadHeader(Header)
    \/ \E line \in Lines : LoadRow(line)
    \/ LoadFail
    \/ LoadDone
    \/ \E b \in BOOLEAN : SetAutoNormSymbol(b)
    \/ \E query \in QueryFields : \E value \in QueryValues(query) :
            Fetch(value, query)
    \/ \E query \in QueryFields, target \in TargetFields :
            \E value \in QueryValues(query) : Lookup(value, query, target)

Spec == Init /\ [][Next]_vars

----------------------------------------------------------------------------
(* Fetch and Lookup step by step, called from several threads at once *)

\* the rows of the file loaded before the threads start
ConcLines == {<<"A", TAB, "B", PIPE, PIPE, SP, "C", TAB, "C", TAB, "1">>}

\* the calls the threads make
ConcCalls ==
    {[op |-> "Fetch", value |-> <<"C">>, query |-> FIELD_SYMBOL, target |-> ""],
     [op |-> "Lookup", value |-> <<SP, "B">>, query |-> FIELD_SYMBOL,
      target |-> FIELD_ENTREZ_ID],
     [op |-> "Fetch", value |-> <<"C">>, query |-> FIELD_PREV_SYMBOL, target |-> ""],
     [op |-> "Lookup", value |-> EMPTY, query |-> FIELD_ENTREZ_ID,
      target |-> FIELD_SYMBOL]}

InFlight == {"norm", "index", "loop"}

\* what the call of thread record c returns when nothing else runs
Alone(c) ==
    IF c.op = "Fetch" THEN FetchResult(c.value, c.query)
    ELSE LookupResult(c.value, c.query, c.target)

\* the return of a call: the locals are gone, the result is kept
Returned(c, raced, result) ==
    [Idle EXCEPT !.pc = "done", !.op = c.op, !.value = c.value, !.query = c.query,
                 !.target = c.target, !.acc = result, !.raced = raced,
                 !.alone = Alone(c)]

\* search.go:5-17 and 43-55: entry, the nil and "" tests, the symbol test
QueryCall(t, c) ==
    /\ pc = "ready"
    /\ th[t].pc \in {"idle", "done"}
    /\ th' = [th EXCEPT ![t] =
                IF c.value = EMPTY
                THEN Returned(c, FALSE, <<>>)
                ELSE [Idle EXCEPT !.pc = IF c.query = FIELD_SYMBOL THEN "norm"
                                         ELSE "index",
                                  !.op = c.op, !.value = c.value,
                                  !.query = c.query, !.target = c.target,
                                  !.key = c.value]]
    /\ UNCHANGED <<pc, headerMap, records, geneSymbolMap, stdHgncSymbols, caches,
                   autoNormSymbol, recordIdx, last>>

\* a symbol step that remembers, in the Alias Map, what the symbol resolved to
QueryNormalize_Memoize(t) ==
    /\ th[t].pc = "norm"
    /\ th' = [th EXCEPT ![t].key = normalizeGiven(autoNormSymbol, th[t].value),
                        ![t].pc = "index"]
    /\ geneSymbolMap' = (TrimSpace(th[t].value) :>
                            normalizeGiven(autoNormSymbol, th[t].value)) @@ geneSymbolMap
    /\ UNCHANGED <<pc, headerMap, records, stdHgncSymbols, caches,
                   autoNormSymbol, recordIdx, last>>

\* search.go:16 and 54: value = h.normalizeSymbol(value), reading the flag
QueryNormalize(t) ==
    /\ th[t].pc = "norm"
    /\ th' = [th EXCEPT ![t].key = normalizeGiven(autoNormSymbol, th[t].value),
                        ![t].pc = "index"]
    /\ UNCHANGED <<pc, headerMap, records, geneSymbolMap, stdHgncSymbols, caches,
                   autoNormSymbol, recordIdx, last>>

\* search.go:19-31 and 57-72: the index is read, or the scan starts
QueryIndex(t) ==
    /\ th[t].pc = "index"
    /\ th' = [th EXCEPT ![t] =
                IF th[t].query \in DOMAIN caches
                THEN IF th[t].key \in DOMAIN caches[th[t].query]
                     THEN [th[t] EXCEPT !.pc = "loop", !.i = 1,
                                        !.todo = caches[th[t].query][th[t].key]]
                     ELSE Returned(th[t], th[t].raced, <<>>)
                ELSE [th[t] EXCEPT !.pc = "loop", !.i = 1,
                                   !.todo = [k \in 1..Len(records) |-> k - 1]]]
    /\ UNCHANGED <<pc, headerMap, records, geneSymbolMap, stdHgncSymbols, caches,
                   autoNormSymbol, recordIdx, last>>

\* search.go:24-27, 32-37, 64-67, 73-78: one turn of the loop, or the return
QueryLoop(t) ==
    /\ th[t].pc = "loop"
    /\ th' = [th EXCEPT ![t] =
                IF th[t].i > Len(th[t].todo)
                THEN Returned(th[t], th[t].raced, th[t].acc)
                ELSE LET p == th[t].todo[th[t].i]
                         record == records[p + 1]
                         hit == \/ th[t].query \in DOMAIN caches
                                \/ Get(record, th[t].query) = th[t].key
                         item == IF th[t].op = "Fetch" THEN p
                                 ELSE Get(record, th[t].target)
                     IN  [th[t] EXCEPT !.i = @ + 1,
                                       !.acc = IF hit THEN Append(@, item) ELSE @]]
    /\ UNCHANGED <<pc, headerMap, records, geneSymbolMap, stdHgncSymbols, caches,
                   autoNormSymbol, recordIdx, last>>

\* a setter that drops the Alias Map when it switches normalization off
RacingSetAutoNormSymbol_DropsAliases(b) ==
    /\ pc = "ready"
    /\ autoNormSymbol' = b
    /\ geneSymbolMap' = IF b THEN geneSymbolMap ELSE <<>>
    /\ th' = [t \in Threads |->
                IF th[t].pc \in InFlight THEN [th[t] EXCEPT !.raced = TRUE]
                ELSE th[t]]
    /\ UNCHANGED <<pc, headerMap, records, stdHgncSymbols, caches,
                   recordIdx, last>>

\* hgnc.go:23-25, called while other threads are inside Fetch or Lookup
RacingSetAutoNormSymbol(b) ==
    /\ pc = "ready"
    /\ autoNormSymbol' = b
    /\ th' = [t \in Threads |->
                IF th[t].pc \in InFlight THEN [th[t] EXCEPT !.raced = TRUE]
                ELSE th[t]]
    /\ UNCHANGED <<pc, headerMap, records, geneSymbolMap, stdHgncSymbols, caches,
                   recordIdx, last>>

NextConc ==
    \/ OpenFail
    \/ HeaderFail
    \/ ReadHeader(Header)
    \/ \E line \in ConcLines : LoadRow(line)
    \/ LoadFail
    \/ LoadDone
    \/ \E t \in Threads, c \in ConcCalls : QueryCall(t, c)
    \/ \E t \in Threads : QueryNormalize(t)
    \/ \E t \in Threads : QueryIndex(t)
    \/ \E t \in Threads : QueryLoop(t)
    \/ \E b \in BOOLEAN : RacingSetAutoNormSymbol(b)

SpecConc == Init /\ [][NextConc]_vars

----------------------------------------------------------------------------
(* The wrappers of hgnc.go *)

Digits == {"0", "1", "2", "3", "4", "5", "6", "7", "8", "9"}

DigitValue(d) ==
    CASE d = "0" -> 0 [] d = "1" -> 1 [] d = "2" -> 2 [] d = "3" -> 3 [] d = "4" -> 4
      [] d = "5" -> 5 [] d = "6" -> 6 [] d = "7" -> 7 [] d = "8" -> 8 [] d = "9" -> 9

\* strings.HasPrefix(s, prefix)
HasPrefix(s, prefix) ==
    /\ Len(s) >= Len(prefix)
    /\ SubSeq(s, 1, Len(prefix)) = prefix

\* the decimal digits of 1<<63 - 1 and of 1<<63, the bounds of a 64-bit int
MaxIntDigits ==
    <<"9", "2", "2", "3", "3", "7", "2", "0", "3", "6", "8", "5", "4", "7", "7",
      "5", "8", "0", "7">>
MinIntDigits ==
    <<"9", "2", "2", "3", "3", "7", "2", "0", "3", "6", "8", "5", "4", "7", "7",
      "5", "8", "0", "8">>

\* digits without their leading zeros
RECURSIVE StripZeros(_)
StripZeros(ds) ==
    IF ds # <<>> /\ Head(ds) = "0" THEN StripZeros(Tail(ds)) ELSE ds

\* the number written ds is at most the number written limit
AtMost(ds, limit) ==
    LET d == StripZeros(ds)
    IN  \/ Len(d) < Len(limit)
        \/ /\ Len(d) = Len(limit)
           /\ \/ d = limit
              \/ \E i \in 1..Len(d) :
                    /\ \A j \in 1..(i - 1) : d[j] = limit[j]
                    /\ DigitValue(d[i]) < DigitValue(limit[i])

\* an Atoi without the range check
AtoiOk_Unbounded(s) ==
    LET body == IF s # <<>> /\ s[1] \in {"+", "-"} THEN Tail(s) ELSE s
    IN  /\ body # <<>>
        /\ \A i \in 1..Len(body) : body[i] \in Digits

\* strconv.Atoi(s) returns no error: an optional sign, then decimal digits
\* only, the number within the range of int
AtoiOk(s) ==
    LET neg == s # <<>> /\ s[1] = "-"
        body == IF s # <<>> /\ s[1] \in {"+", "-"} THEN Tail(s) ELSE s
    IN  /\ body # <<>>
        /\ \A i \in 1..Len(body) : body[i] \in Digits
        /\ AtMost(body, IF neg THEN MinIntDigits ELSE MaxIntDigits)

PrefixHGNC == <<"H", "G", "N", "C", ":">>
PrefixENSG == <<"E", "N", "S", "G">>
PrefixUc == <<"u", "c">>
PrefixCoding ==
    <<"p", "r", "o", "t", "e", "i", "n", "-", "c", "o", "d", "i", "n", "g">>

\* a classifier without the rule of hgnc.go:184-185
classifyGeneStringSystem_NoUcsc(gene) ==
    IF HasPrefix(gene, PrefixHGNC) THEN FIELD_HGNC_ID
    ELSE IF HasPrefix(gene, PrefixENSG) THEN FIELD_ENSEMBL_GENE_ID
    ELSE IF AtoiOk(gene) THEN FIELD_ENTREZ_ID
    ELSE FIELD_SYMBOL

\* hgnc.go:178-191
classifyGeneStringSystem(gene) ==
    IF HasPrefix(gene, PrefixHGNC) THEN FIELD_HGNC_ID
    ELSE IF HasPrefix(gene, PrefixENSG) THEN FIELD_ENSEMBL_GENE_ID
    ELSE IF HasPrefix(gene, PrefixUc) THEN FIELD_UCSC_ID
    ELSE IF AtoiOk(gene) THEN FIELD_ENTREZ_ID
    ELSE FIELD_SYMBOL

\* the strings classified: each head followed by each rest
ClassifyHeads ==
    {EMPTY, PrefixHGNC, PrefixENSG, PrefixUc, <<"+">>, <<"-">>, <<SP>>,
     <<"H", "G", "N", "C">>, <<"e", "n", "s", "g">>, <<"U", "C">>}
ClassifyRests ==
    {EMPTY, <<"5">>, <<"0", "0", "7">>, <<"1", "1", "0", "0">>,
     <<"7", "1", "5", "7">>,
     <<"0", "0", "0", "0", "0", "0", "1", "2", "0", "4", "8">>,
     <<"0", "0", "2", "i", "c", "t", ".", "4">>,
     <<"B", "R", "C", "A", "1">>, <<"1", ".", "5">>, <<"1", SP>>, <<"-", "1">>,
     MaxIntDigits, MinIntDigits, <<"0">> \o MinIntDigits, MaxIntDigits \o <<"0">>}
ClassifyInputs == {head \o rest : head \in ClassifyHeads, rest \in ClassifyRests}

\* hgnc.go:179-191 called with gene; the field returned is query
Classify(gene) ==
    /\ last' = [Carried EXCEPT !.op = "classifyGeneStringSystem", !.value = gene,
                               !.query = classifyGeneStringSystem(gene)]
    /\ UNCHANGED <<pc, headerMap, records, geneSymbolMap, stdHgncSymbols, caches,
                   autoNormSymbol, recordIdx, th>>

NextClassify == \E gene \in ClassifyInputs : Classify(gene)

SpecClassify == Init /\ [][NextClassify]_vars

\* a return that reports found only when the first value is not empty
First_ByValue(result) ==
    IF Len(result) > 0 /\ result[1] # EMPTY THEN [str |-> result[1], found |-> TRUE]
    ELSE [str |-> EMPTY, found |-> FALSE]

\* if result := h.Lookup(...); len(result) > 0 { return result[0], true }
\* return "", false
First(result) ==
    IF Len(result) > 0 THEN [str |-> result[1], found |-> TRUE]
    ELSE [str |-> EMPTY, found |-> FALSE]

\* a wrapper called with gene, querying field for target, returns out
Wrapper(name, gene, field, target, out) ==
    /\ pc = "ready"
    /\ last' = [Carried EXCEPT !.op = name, !.value = gene, !.query = field,
                              !.target = target, !.norm = autoNormSymbol,
                              !.str = out.str, !.found = out.found]
    /\ UNCHANGED <<pc, headerMap, records, geneSymbolMap, stdHgncSymbols, caches,
                   autoNormSymbol, recordIdx, th>>

\* a GetManeSelect that takes every string for a symbol
GetManeSelectResult_SymbolOnly(gene) ==
    First(LookupResult(gene, FIELD_SYMBOL, FIELD_MANE_SELECT))

\* hgnc.go:193-200
GetManeSelectResult(gene) ==
    First(LookupResult(gene, classifyGeneStringSystem(gene), FIELD_MANE_SELECT))

GetManeSelect(gene) ==
    Wrapper("GetManeSelect", gene, classifyGeneStringSystem(gene),
            FIELD_MANE_SELECT, GetManeSelectResult(gene))

\* hgnc.go:202-209
GetManeSelectENST(gene) ==
    LET r == GetManeSelectResult(gene)
    IN  Wrapper("GetManeSelectENST", gene, classifyGeneStringSystem(gene),
                FIELD_MANE_SELECT,
                IF r.found THEN [str |-> Split(r.str, PIPE)[1], found |-> TRUE]
                ELSE [str |-> EMPTY, found |-> FALSE])

\* hgnc.go:211-221
GetManeSelectRefseq(gene) ==
    LET r == GetManeSelectResult(gene)
        split == Split(r.str, PIPE)
    IN  Wrapper("GetManeSelectRefseq", gene, classifyGeneStringSystem(gene),
                FIELD_MANE_SELECT,
                IF r.found /\ Len(split) > 1 THEN [str |-> split[2], found |-> TRUE]
                ELSE [str |-> EMPTY, found |-> FALSE])

\* hgnc.go:223-232
IsCodingGeneResult(gene) ==
    LET result == LookupResult(gene, classifyGeneStringSystem(gene), FIELD_LOCUS_GROUP)
    IN  Len(result) > 0 /\ HasPrefix(result[1], PrefixCoding)

IsCodingGene(gene) ==
    Wrapper("IsCodingGene", gene, classifyGeneStringSystem(gene), FIELD_LOCUS_GROUP,
            [str |-> EMPTY, found |-> IsCodingGeneResult(gene)])

\* hgnc.go:234-240
EntrezIDToSymbol(entrezID) ==
    Wrapper("EntrezIDToSymbol", entrezID, FIELD_ENTREZ_ID, FIELD_SYMBOL,
            First(LookupResult(entrezID, FIELD_ENTREZ_ID, FIELD_SYMBOL)))

\* hgnc.go:242-248
SymbolToEntrezID(symbol) ==
    Wrapper("SymbolToEntrezID", symbol, FIELD_SYMBOL, FIELD_ENTREZ_ID,
            First(LookupResult(symbol, FIELD_SYMBOL, FIELD_ENTREZ_ID)))

\* hgnc.go:250-257
EnsgToSymbol(ensg) ==
    Wrapper("EnsgToSymbol", ensg, FIELD_ENSEMBL_GENE_ID, FIELD_SYMBOL,
            First(LookupResult(Split(ensg, ".")[1], FIELD_ENSEMBL_GENE_ID,
                               FIELD_SYMBOL)))

\* hgnc.go:259-265
SymbolToEnsg(symbol) ==
    Wrapper("SymbolToEnsg", symbol, FIELD_SYMBOL, FIELD_ENSEMBL_GENE_ID,
            First(LookupResult(symbol, FIELD_SYMBOL, FIELD_ENSEMBL_GENE_ID)))

\* hgnc.go:267-273
UcscIDToSymbol(ucscID) ==
    Wrapper("UcscIDToSymbol", ucscID, FIELD_UCSC_ID, FIELD_SYMBOL,
            First(LookupResult(ucscID, FIELD_UCSC_ID, FIELD_SYMBOL)))

\* hgnc.go:275-281
SymbolToUcscID(symbol) ==
    Wrapper("SymbolToUcscID", symbol, FIELD_SYMBOL, FIELD_UCSC_ID,
            First(LookupResult(symbol, FIELD_SYMBOL, FIELD_UCSC_ID)))

\* hgnc.go:283-291
GeneRefseqAccsResult(gene) ==
    First(LookupResult(gene, classifyGeneStringSystem(gene), FIELD_REFSEQ_ACCESSION))

GeneRefseqAccs(gene) ==
    Wrapper("GeneRefseqAccs", gene, classifyGeneStringSystem(gene),
            FIELD_REFSEQ_ACCESSION, GeneRefseqAccsResult(gene))

WrapperNames ==
    {"GetManeSelect", "GetManeSelectENST", "GetManeSelectRefseq", "IsCodingGene",
     "EntrezIDToSymbol", "SymbolToEntrezID", "EnsgToSymbol", "SymbolToEnsg",
     "UcscIDToSymbol", "SymbolToUcscID", "GeneRefseqAccs"}

\* the header line and the rows of the file the wrappers are called on
ApiHeader ==
    <<FIELD_HGNC_ID, FIELD_SYMBOL, FIELD_ALIAS_SYMBOL, FIELD_LOCUS_GROUP,
      FIELD_ENTREZ_ID, FIELD_ENSEMBL_GENE_ID, FIELD_UCSC_ID,
      FIELD_REFSEQ_ACCESSION, FIELD_MANE_SELECT>>

ApiLines ==
    {Join(<<PrefixHGNC \o <<"1">>, <<"A">>, <<"C">>, PrefixCoding, <<"1">>,
            PrefixENSG \o <<"1">>, PrefixUc \o <<"1">>, <<"N", "1">>,
            <<"E", "1", PIPE, "N", "1">>>>, TAB),
     Join(<<PrefixHGNC \o <<"2">>, <<"B">>, <<"C">>, <<"R", "N", "A">>, <<"2">>>>,
          TAB),
     Join(<<PrefixHGNC \o <<"3">>, <<"2">>, EMPTY, PrefixCoding, <<"3">>,
            PrefixENSG \o <<"1">>, EMPTY, <<"N", "3">>,
            <<"E", "3", PIPE, "N", "3">>>>, TAB)}

\* the strings passed to the wrappers
GeneInputs ==
    {<<"A">>, <<"C">>, <<"1">>, <<"+", "2">>, PrefixHGNC \o <<"1">>,
     PrefixENSG \o <<"1">>, PrefixENSG \o <<"1", ".", "2">>, PrefixUc \o <<"1">>,
     <<"B">>, <<"2">>, <<"3">>, PrefixHGNC \o <<"2">>, PrefixHGNC \o <<"3">>}

NextApi ==
    \/ OpenFail
    \/ HeaderFail
    \/ ReadHeader(ApiHeader)
    \/ \E line \in ApiLines : LoadRow(line)
    \/ LoadFail
    \/ LoadDone
    \/ \E b \in BOOLEAN : SetAutoNormSymbol(b)
    \/ \E query \in QueryFields : \E value \in QueryValues(query) :
            Fetch(value, query)
    \/ \E query \in QueryFields, target \in TargetFields :
            \E value \in QueryValues(query) : Lookup(value, query, target)
    \/ \E gene \in GeneInputs : GetManeSelect(gene)
    \/ \E gene \in GeneInputs : GetManeSelectENST(gene)
    \/ \E gene \in GeneInputs : GetManeSelectRefseq(gene)
    \/ \E gene \in GeneInputs : IsCodingGene(gene)
    \/ \E gene \in GeneInputs : EntrezIDToSymbol(gene)
    \/ \E gene \in GeneInputs : SymbolToEntrezID(gene)
    \/ \E gene \in GeneInputs : EnsgToSymbol(gene)
    \/ \E gene \in GeneInputs : SymbolToEnsg(gene)
    \/ \E gene \in GeneInputs : UcscIDToSymbol(gene)
    \/ \E gene \in GeneInputs : SymbolToUcscID(gene)
    \/ \E gene \in GeneInputs : GeneRefseqAccs(gene)

SpecApi == Init /\ [][NextApi]_vars

----------------------------------------------------------------------------
(* The caller's hold on what Fetch returned *)

\* the rows of the file the caller queries
CallerLines ==
    {<<"A", TAB, TAB, TAB, "1">>,
     <<"B", TAB, "C", TAB, TAB, "1">>}

\* the map entries the caller writes
CallerFields == {FIELD_ENTREZ_ID, FIELD_PREV_SYMBOL}
CallerValues == {<<"C">>}

\* record.go:13-16 with search.go:25 and 34: Fetch returned the *Record
\* h.records[p] itself, and ToMap returns r.data itself, so the caller's
\* rec.ToMap()[field] = value is a write to the record store
CallerWrite(p, field, value) ==
    /\ pc = "ready"
    /\ last.op \in {"Fetch", "CallerWrite"}
    /\ p \in {last.recs[i] : i \in DOMAIN last.recs}
    /\ records' = [records EXCEPT ![p + 1] = (field :> value) @@ @]
    /\ last' = [last EXCEPT !.op = "CallerWrite", !.target = field, !.str = value]
    /\ UNCHANGED <<pc, headerMap, geneSymbolMap, stdHgncSymbols, caches,
                   autoNormSymbol, recordIdx, th>>

NextCaller ==
    \/ OpenFail
    \/ HeaderFail
    \/ ReadHeader(Header)
    \/ \E line \in CallerLines : LoadRow(line)
    \/ LoadFail
    \/ LoadDone
    \/ \E b \in BOOLEAN : SetAutoNormSymbol(b)
    \/ \E query \in QueryFields : \E value \in QueryValues(query) :
            Fetch(value, query)
    \/ \E query \in QueryFields, target \in TargetFields :
            \E value \in QueryValues(query) : Lookup(value, query, target)
    \/ \E p \in 0..(MaxRows - 1), field \in CallerFields, value \in CallerValues :
            CallerWrite(p, field, value)

SpecCaller == Init /\ [][NextCaller]_vars

----------------------------------------------------------------------------
(* Handles LoadTsv did not build *)

\* the caller holds a nil *HGNC: LoadTsv was not called, or returned nil, err
NilHandle == pc \in {"start", "open_err", "header_err", "scan_err"}

\* search.go:7-9: if h == nil { panic("HGNC is nil") }
FetchOnNil(value, query) ==
    /\ NilHandle
    /\ pc' = "panic"
    /\ last' = [Carried EXCEPT !.op = "Fetch", !.value = value, !.query = query]
    /\ UNCHANGED <<headerMap, records, geneSymbolMap, stdHgncSymbols, caches,
                   autoNormSymbol, recordIdx, th>>

\* search.go:45-47
LookupOnNil(value, query, target) ==
    /\ NilHandle
    /\ pc' = "panic"
    /\ last' = [Carried EXCEPT !.op = "Lookup", !.value = value, !.query = query,
                               !.target = target]
    /\ UNCHANGED <<headerMap, records, geneSymbolMap, stdHgncSymbols, caches,
                   autoNormSymbol, recordIdx, th>>

\* hgnc.go:194-291: every wrapper reaches h.Lookup, which panics
WrapperOnNil(name, gene) ==
    /\ NilHandle
    /\ pc' = "panic"
    /\ last' = [Carried EXCEPT !.op = name, !.value = gene]
    /\ UNCHANGED <<headerMap, records, geneSymbolMap, stdHgncSymbols, caches,
                   autoNormSymbol, recordIdx, th>>

\* hgnc.go:15-21: HGNC is an exported struct, so a caller can write
\* h := &HGNC{}: no records, nil maps (reads of them find nothing), flag false
ZeroHandle ==
    /\ pc = "start"
    /\ pc' = "zero"
    /\ caches' = <<>>
    /\ autoNormSymbol' = FALSE
    /\ UNCHANGED <<headerMap, records, geneSymbolMap, stdHgncSymbols, recordIdx,
                   last, th>>

\* search.go:5-39 on the zero handle: h is not nil, the reads of the nil
\* maps miss, and the loop over the nil h.records ends at once
FetchOnZero(value, query) ==
    /\ pc = "zero"
    /\ last' = [Carried EXCEPT !.op = "Fetch", !.value = value, !.query = query,
                               !.norm = autoNormSymbol,
                               !.key = IF value = EMPTY THEN EMPTY
                                       ELSE QueryKey(value, query),
                               !.recs = FetchResult(value, query)]
    /\ UNCHANGED <<pc, headerMap, records, geneSymbolMap, stdHgncSymbols, caches,
                   autoNormSymbol, recordIdx, th>>

\* search.go:43-80 on the zero handle
LookupOnZero(value, query, target) ==
    /\ pc = "zero"
    /\ last' = [Carried EXCEPT !.op = "Lookup", !.value = value, !.query = query,
                               !.target = target, !.norm = autoNormSymbol,
                               !.key = IF value = EMPTY THEN EMPTY
                                       ELSE QueryKey(value, query),
                               !.vals = LookupResult(value, query, target)]
    /\ UNCHANGED <<pc, headerMap, records, geneSymbolMap, stdHgncSymbols, caches,
                   autoNormSymbol, recordIdx, th>>

NextHandle ==
    \/ OpenFail
    \/ HeaderFail
    \/ ReadHeader(Header)
    \/ \E line \in CallerLines : LoadRow(line)
    \/ LoadFail
    \/ LoadDone
    \/ \E b \in BOOLEAN : SetAutoNormSymbol(b)
    \/ \E query \in QueryFields : \E value \in QueryValues(query) :
            Fetch(value, query)
    \/ \E query \in QueryFields, target \in TargetFields :
            \E value \in QueryValues(query) : Lookup(value, query, target)
    \/ \E query \in QueryFields : \E value \in QueryValues(query) :
            FetchOnNil(value, query)
    \/ \E query \in QueryFields, target \in TargetFields :
            \E value \in QueryValues(query) : LookupOnNil(value, query, target)
    \/ \E name \in WrapperNames, gene \in GeneInputs : WrapperOnNil(name, gene)
    \/ ZeroHandle
    \/ \E query \in QueryFields : \E value \in QueryValues(query) :
            FetchOnZero(value, query)
    \/ \E query \in QueryFields, target \in TargetFields :
            \E value \in QueryValues(query) : LookupOnZero(value, query, target)

SpecHandle == Init /\ [][NextHandle]_vars

----------------------------------------------------------------------------
(* One cell through line2Record *)

\* the characters of the raw cells, and the raw cells: every string of them
\* up to MaxCell characters
CellChars == {SP, QUOTE, "A"}
RawCells == UNION {[1..n -> CellChars] : n \in 0..MaxCell}

\* hgnc.go:138-158 for a file of the one column symbol and the one-cell row
\* raw; key is the value stored in the record
StoreCell(raw) ==
    /\ last' = [Carried EXCEPT
                   !.op = "line2Record", !.value = raw,
                   !.key = Get(line2Record(raw, HeaderMapOf(<<FIELD_SYMBOL>>)),
                               FIELD_SYMBOL)]
    /\ UNCHANGED <<pc, headerMap, records, geneSymbolMap, stdHgncSymbols, caches,
                   autoNormSymbol, recordIdx, th>>

NextCell == \E raw \in RawCells : StoreCell(raw)

SpecCell == Init /\ [][NextCell]_vars

----------------------------------------------------------------------------
(* Loading rows whose alias and previous-symbol cells hold separators *)

\* alias_symbol cells: commas, semicolons and blanks between names, pipes
\* doubled, leading and trailing, padding around tokens, a quoted cell
SeparatorCells ==
    {<<"B", COMMA, "C">>,
     <<"B", COMMA, SP, "C", PIPE, "D">>,
     <<"B", ";", "C">>,
     <<"B", SP, "C">>,
     <<"B", PIPE, PIPE, "C">>,
     <<"B", PIPE>>,
     <<PIPE>>,
     <<SP, "B", SP, PIPE, SP, "C", SP>>,
     <<QUOTE, "B", PIPE, "C", QUOTE>>}

\* prev_symbol cells
PrevCells == {EMPTY, <<PIPE, "D", COMMA>>}

AliasLines ==
    {Join(<<(<<"A">>), a, v>>, TAB) : a \in SeparatorCells, v \in PrevCells}

NextAlias ==
    \/ ReadHeader(Header)
    \/ \E line \in AliasLines : LoadRow(line)
    \/ LoadDone

SpecAlias == Init /\ [][NextAlias]_vars

----------------------------------------------------------------------------
(* What the claims speak of, read off the record store alone *)

Range(seq) == {seq[i] : i \in 1..Len(seq)}

\* the positions of the record store
Positions == 0..(Len(records) - 1)

RecordAt(p) == records[p + 1]

\* the positions whose record holds value in field, by brute force
Holders(field, value) == {p \in Positions : Get(RecordAt(p), field) = value}

\* the non-empty trimmed tokens of a record's alias_symbol and prev_symbol cells
AliasTokens(record) ==
    {TrimSpace(t) :
        t \in Range(Split(Get(record, FIELD_ALIAS_SYMBOL), PIPE))
              \cup Range(Split(Get(record, FIELD_PREV_SYMBOL), PIPE))} \ {EMPTY}

\* the positions whose record lists a as an alias or previous symbol
Listing(a) == {p \in Positions : a \in AliasTokens(RecordAt(p))}

\* a is the current symbol of some record
IsCurrentSymbol(a) == Holders(FIELD_SYMBOL, a) # {}

\* a call of Fetch or Lookup by symbol that reached the normalizer
SymbolCall ==
    /\ last.op \in {"Fetch", "Lookup"}
    /\ last.query = FIELD_SYMBOL
    /\ last.value # EMPTY

\* the target values of the records at the positions of seq, in order
Project(seq, target) == [i \in 1..Len(seq) |-> Get(RecordAt(seq[i]), target)]

\* the positions of set S in increasing order
RECURSIVE Ascending(_)
Ascending(S) == IF S = {} THEN <<>> ELSE <<Min(S)>> \o Ascending(S \ {Min(S)})

----------------------------------------------------------------------------
(* C1 *)

\* C1 as stated: whatever the field, the value and the flag, Fetch(v, F)
\* returns exactly the records r with r.F = v that a linear scan finds.
C1_FetchEqualsLiteralScan ==
    last.op = "Fetch" =>
        Range(last.recs) = Holders(last.query, last.value)

\* C1 amended: Fetch(v, F) compares v' = normalizeSymbol(v) when F is the
\* symbol field and v' = v otherwise; it returns no record when v or v' is
\* empty, and otherwise exactly the records r with r.F = v', whether F is
\* indexed or scanned.
C1_FetchEqualsScanOfKey ==
    last.op = "Fetch" =>
        /\ last.query # FIELD_SYMBOL /\ last.value # EMPTY => last.key = last.value
        /\ Range(last.recs) =
              IF last.value = EMPTY \/ last.key = EMPTY THEN {}
              ELSE Holders(last.query, last.key)

\* a symbol query resolved through an alias returned several records
C1_Witness ==
    /\ last.op = "Fetch"
    /\ last.query = FIELD_SYMBOL
    /\ last.key # TrimSpace(last.value)
    /\ Len(last.recs) >= 2

----------------------------------------------------------------------------
(* C2 *)

\* what C2 asks of Fetch(v, F) for a record at p holding v in F
IncludesHolder(F, p, v, result) ==
    /\ p \in Range(result)
    /\ Cardinality(Holders(F, v)) = 1 => Len(result) = 1

\* C2 as stated: for each of the 7 indexed fields F and every record R,
\* Fetch(R.F, F) contains R, and has length 1 when R alone holds R.F.
C2_FetchOfOwnValue ==
    last.op = "Fetch" /\ last.query \in IndexedSet =>
        \A p \in Holders(last.query, last.value) :
            IncludesHolder(last.query, p, last.value, last.recs)

\* C2 amended: the same for every record R whose value R.F is not empty.
C2_FetchOfOwnNonEmptyValue ==
    /\ pc = "ready" =>
          \A F \in IndexedSet : \A p \in Positions :
              Get(RecordAt(p), F) # EMPTY =>
                  IncludesHolder(F, p, Get(RecordAt(p), F),
                                 FetchResult(Get(RecordAt(p), F), F))
    /\ last.op = "Fetch" /\ last.query \in IndexedSet /\ last.value # EMPTY =>
          \A p \in Holders(last.query, last.value) :
              IncludesHolder(last.query, p, last.value, last.recs)

\* Fetch was called with a value two records hold, and with a value one holds
C2_Witness ==
    /\ last.op = "Fetch"
    /\ last.query = FIELD_ENTREZ_ID
    /\ Cardinality(Holders(last.query, last.value)) = 2
    /\ \E v \in stdHgncSymbols \ {EMPTY} :
          Cardinality(Holders(FIELD_SYMBOL, v)) = 1

----------------------------------------------------------------------------
(* C3 *)

\* C3: Lookup(value, q, t) is the sequence of t values of the records of
\* Fetch(value, q), same order, same length, "" for a record without t.
C3_LookupIsFetchProjected ==
    last.op = "Lookup" =>
        last.vals = Project(FetchResult(last.value, last.query), last.target)

\* a Lookup matched two records whose target values differ, one of them ""
C3_Witness ==
    /\ last.op = "Lookup"
    /\ Len(last.vals) = 2
    /\ last.vals[1] # last.vals[2]
    /\ EMPTY \in Range(last.vals)

\* a Lookup projected a field no record has an entry for
C3_WitnessNoEntry ==
    /\ last.op = "Lookup"
    /\ Len(last.vals) >= 1
    /\ \A p \in Positions : last.target \notin DOMAIN RecordAt(p)

----------------------------------------------------------------------------
(* C4 *)

\* C4 as stated: with normalization enabled, every non-empty trimmed token a
\* of the alias_symbol or prev_symbol cell of a record R normalizes to R's
\* current symbol, and Fetch(a, symbol) returns R.
C4_AliasResolvesToItsRecord ==
    last.op = "Fetch" /\ last.query = FIELD_SYMBOL /\ last.norm =>
        \A p \in Listing(last.value) :
            /\ last.key = Get(RecordAt(p), FIELD_SYMBOL)
            /\ p \in Range(last.recs)

\* C4 amended: with normalization enabled, for every record R and every
\* non-empty trimmed token a of R's alias_symbol or prev_symbol cell, if a is
\* not the current symbol of any record and no later row lists a, then
\* normalizing a returns R's current symbol, and Fetch(a, symbol) returns R
\* whenever that symbol is not empty.
C4_AliasResolvesToLastListing ==
    last.op = "Fetch" /\ last.query = FIELD_SYMBOL /\ last.norm =>
        \A p \in Listing(last.value) :
            ~IsCurrentSymbol(last.value) /\ p = Max(Listing(last.value)) =>
                /\ last.key = Get(RecordAt(p), FIELD_SYMBOL)
                /\ last.key # EMPTY => p \in Range(last.recs)

\* Fetch by an alias that two records with different symbols list returned
\* the later record
C4_Witness ==
    /\ last.op = "Fetch"
    /\ last.query = FIELD_SYMBOL
    /\ last.norm
    /\ ~IsCurrentSymbol(last.value)
    /\ Cardinality(Listing(last.value)) = 2
    /\ Cardinality({Get(RecordAt(p), FIELD_SYMBOL) : p \in Listing(last.value)}) = 2
    /\ Max(Listing(last.value)) \in Range(last.recs)

----------------------------------------------------------------------------
(* C5 *)

\* C5: with normalization enabled, a trimmed input that is in the
\* Canonical-Symbol Set is returned unchanged, also when it is a key of the
\* Alias Map; the Alias Map decides only for inputs that are not canonical.
C5_CanonicalPrecedence ==
    SymbolCall /\ last.norm =>
        LET trimmed == TrimSpace(last.value)
        IN  /\ trimmed \in stdHgncSymbols => last.key = trimmed
            /\ last.key # trimmed =>
                  /\ trimmed \notin stdHgncSymbols
                  /\ trimmed \in DOMAIN geneSymbolMap
                  /\ last.key = geneSymbolMap[trimmed]

\* the normalizer was given a canonical symbol that the Alias Map sends to a
\* different symbol
C5_Witness ==
    /\ SymbolCall
    /\ last.norm
    /\ TrimSpace(last.value) \in stdHgncSymbols
    /\ TrimSpace(last.value) \in DOMAIN geneSymbolMap
    /\ geneSymbolMap[TrimSpace(last.value)] # TrimSpace(last.value)

----------------------------------------------------------------------------
(* C6 *)

\* C6 as stated: with normalization disabled the normalizer returns the
\* trimmed input, Fetch(v, symbol) returns exactly the records whose stored
\* symbol equals trim(v), and a query by a pure alias returns nothing.
C6_DisabledIsLiteralMatch ==
    last.op = "Fetch" /\ last.query = FIELD_SYMBOL /\ ~last.norm =>
        /\ last.value # EMPTY => last.key = TrimSpace(last.value)
        /\ Range(last.recs) = Holders(FIELD_SYMBOL, TrimSpace(last.value))

\* C6 amended: with normalization disabled the normalizer returns the trimmed
\* input; Fetch(v, symbol) returns exactly the records whose stored symbol
\* equals trim(v) when trim(v) is not empty and no record when it is empty;
\* a query by a pure alias returns nothing.
C6_DisabledIsLiteralNonEmptyMatch ==
    last.op = "Fetch" /\ last.query = FIELD_SYMBOL /\ ~last.norm =>
        /\ last.value # EMPTY => last.key = TrimSpace(last.value)
        /\ Range(last.recs) =
              IF TrimSpace(last.value) = EMPTY THEN {}
              ELSE Holders(FIELD_SYMBOL, TrimSpace(last.value))
        /\ Listing(last.value) # {} /\ ~IsCurrentSymbol(last.value) =>
              last.recs = <<>>

\* with normalization disabled, a padded symbol was fetched and found, while
\* the Alias Map sends its trimmed form elsewhere
C6_Witness ==
    /\ last.op = "Fetch"
    /\ last.query = FIELD_SYMBOL
    /\ ~last.norm
    /\ last.value # TrimSpace(last.value)
    /\ Len(last.recs) >= 1
    /\ \E a \in DOMAIN geneSymbolMap : a \notin stdHgncSymbols

\* with normalization disabled, a pure alias was fetched
C6_WitnessAlias ==
    /\ last.op = "Fetch"
    /\ last.query = FIELD_SYMBOL
    /\ ~last.norm
    /\ Listing(last.value) # {}
    /\ ~IsCurrentSymbol(last.value)

----------------------------------------------------------------------------
(* C7 *)

\* the Entrez IDs of the records whose symbol is S, in row order
EntrezOf(S) == Project(Ascending(Holders(FIELD_SYMBOL, S)), FIELD_ENTREZ_ID)

\* last is Lookup(a, symbol, entrez_id) for an alias a that is no current symbol
AliasLookup ==
    /\ last.op = "Lookup"
    /\ last.query = FIELD_SYMBOL
    /\ last.target = FIELD_ENTREZ_ID
    /\ last.value \in DOMAIN geneSymbolMap
    /\ ~IsCurrentSymbol(last.value)

\* C7 as stated: for an alias a that is no current symbol and is mapped to
\* S, Lookup(a, symbol, entrez_id) is the Entrez IDs of the records with
\* symbol S when normalization is enabled and empty when it is disabled.
C7_AliasLookupUnderToggle ==
    AliasLookup =>
        last.vals = IF last.norm THEN EntrezOf(geneSymbolMap[last.value]) ELSE <<>>

\* C7 amended: the same for an alias mapped to a symbol S that is not empty;
\* for an alias mapped to the empty symbol the result is empty in both states.
C7_AliasLookupUnderToggleNonEmpty ==
    AliasLookup =>
        last.vals = IF last.norm /\ geneSymbolMap[last.value] # EMPTY
                    THEN EntrezOf(geneSymbolMap[last.value]) ELSE <<>>

\* with normalization enabled, Lookup by a pure alias returned an Entrez ID
C7_Witness ==
    /\ AliasLookup
    /\ last.norm
    /\ Len(last.vals) >= 1
    /\ last.vals[1] # EMPTY

\* with normalization disabled, Lookup by the alias of a record that has an
\* Entrez ID was called
C7_WitnessDisabled ==
    /\ AliasLookup
    /\ ~last.norm
    /\ EntrezOf(geneSymbolMap[last.value]) # <<>>
    /\ geneSymbolMap[last.value] # EMPTY

----------------------------------------------------------------------------
(* C8 *)

\* thread t moved on in its call
Progress(t) ==
    <<th[t].pc, th[t].i, th[t].op, th[t].value, th[t].query, th[t].target>>
        # <<th'[t].pc, th'[t].i, th'[t].op, th'[t].value, th'[t].query,
            th'[t].target>>

\* no thread ever waits for another: a thread in a call can take its next
\* step, a thread outside a call can start one
NeverBlocked ==
    pc = "ready" =>
        \A t \in Threads :
            /\ th[t].pc = "norm" => ENABLED QueryNormalize(t)
            /\ th[t].pc = "index" => ENABLED QueryIndex(t)
            /\ th[t].pc = "loop" => ENABLED QueryLoop(t)
            /\ th[t].pc \in {"idle", "done"} =>
                  \A c \in ConcCalls : ENABLED QueryCall(t, c)

\* a call that no SetAutoNormSymbol overlapped returned what it returns alone
ReturnsAsAlone ==
    \A t \in Threads :
        th[t].pc = "done" /\ ~th[t].raced => th[t].acc = th[t].alone

\* a step of a thread inside Fetch or Lookup writes nothing shared
StepsWriteNothing ==
    (\E t \in Threads : Progress(t)) =>
        UNCHANGED <<records, geneSymbolMap, stdHgncSymbols, caches, autoNormSymbol>>

\* C8: after LoadTsv has returned, Fetch and Lookup calls interleaved on
\* several threads write no shared state, never block one another, and a call
\* no SetAutoNormSymbol overlaps returns exactly what it returns run alone.
C8_ConcurrentReads ==
    /\ [](NeverBlocked /\ ReturnsAsAlone)
    /\ [][StepsWriteNothing]_vars

\* two threads were inside a call at once and one of them has returned a
\* non-empty result, no SetAutoNormSymbol having overlapped it
C8_Witness ==
    \E t, u \in Threads :
        /\ t # u
        /\ th[t].pc = "done" /\ ~th[t].raced /\ Len(th[t].acc) >= 2
        /\ th[u].pc = "loop" /\ th[u].i >= 2

----------------------------------------------------------------------------
(* C9 *)

\* C9: once LoadTsv has returned, Fetch, Lookup and the wrappers (with the
\* normalizeSymbol calls inside them) leave the record store, the indexes,
\* the Canonical-Symbol Set, the Alias Map and the flag unchanged, and
\* SetAutoNormSymbol(b) sets the flag to b and changes nothing else of them.
C9_OnlyTheFlagIsMutable ==
    [][pc = "ready" =>
          /\ UNCHANGED <<records, caches, stdHgncSymbols, geneSymbolMap>>
          /\ last'.op \in {"Fetch", "Lookup"} \cup WrapperNames =>
                UNCHANGED autoNormSymbol
          /\ last'.op = "SetAutoNormSymbol" => autoNormSymbol' = last'.norm
          /\ autoNormSymbol' # autoNormSymbol => last'.op = "SetAutoNormSymbol"]_vars

\* the flag was switched off by SetAutoNormSymbol and a wrapper then found
\* a record of a two-row store
C9_Witness ==
    /\ ~autoNormSymbol
    /\ last.op \in WrapperNames
    /\ last.found
    /\ Len(records) = 2

----------------------------------------------------------------------------
(* C10 *)

\* C10: no value returned by a query is a mutable alias of the record store:
\* whatever the caller writes through the records Fetch returned (and the maps
\* ToMap gives for them), every Fetch and every Lookup returns afterwards
\* what it returned before.
C10_ResultsSurviveCallerWrites ==
    [][last'.op = "CallerWrite" =>
          \A query \in QueryFields : \A value \in QueryValues(query) :
                /\ FetchResult(value, query)' = FetchResult(value, query)
                /\ \A target \in TargetFields :
                      LookupResult(value, query, target)' =
                          LookupResult(value, query, target)]_vars

----------------------------------------------------------------------------
(* C11 *)

\* the state of normalization the calls so far ask for: enabled on a handle
\* LoadTsv returned, then the argument of the latest SetAutoNormSymbol
ToggledTo == IF last.toggle = <<>> THEN TRUE ELSE last.toggle[1]

\* C11: a handle returned by LoadTsv has normalization enabled, and after
\* SetAutoNormSymbol(b) the flag is b and every symbol-keyed Fetch and Lookup
\* returns what normalization in state b gives, however many queries were
\* made since, until the next SetAutoNormSymbol.
C11_NormalizationPersists ==
    pc = "ready" =>
        /\ autoNormSymbol = ToggledTo
        /\ last.op \in {"Fetch", "Lookup"} => last.norm = ToggledTo
        /\ last.op = "Fetch" /\ last.query = FIELD_SYMBOL /\ last.value # EMPTY =>
              last.recs = FetchByKey(normalizeGiven(ToggledTo, last.value),
                                     FIELD_SYMBOL)
        /\ last.op = "Lookup" /\ last.query = FIELD_SYMBOL /\ last.value # EMPTY =>
              last.vals = LookupByKey(normalizeGiven(ToggledTo, last.value),
                                      FIELD_SYMBOL, last.target)

\* normalization was switched off, and a later Fetch of an alias of a loaded
\* symbol found nothing although enabled normalization would find a record
C11_Witness ==
    /\ last.toggle = <<FALSE>>
    /\ last.op = "Fetch"
    /\ last.query = FIELD_SYMBOL
    /\ last.recs = <<>>
    /\ FetchByKey(normalizeGiven(TRUE, last.value), FIELD_SYMBOL) # <<>>

\* the latest SetAutoNormSymbol switched normalization on, and a later Fetch of
\* an alias found the record of its symbol
C11_WitnessEnabledAgain ==
    /\ last.toggle = <<TRUE>>
    /\ last.op = "Fetch"
    /\ last.query = FIELD_SYMBOL
    /\ last.recs # <<>>
    /\ FetchByKey(normalizeGiven(FALSE, last.value), FIELD_SYMBOL) = <<>>

----------------------------------------------------------------------------
(* C12 *)

\* LoadTsv or SetAutoNormSymbol has just returned: each store is met here in
\* each state of the flag, before any query
FreshHandle == last.op \in {"LoadTsv", "SetAutoNormSymbol"}

\* a field name no header and no index has
NoSuchField == "no_such_field"

\* C12: for every field, every target field and either state of the flag,
\* Fetch("", field) and Lookup("", field, target) return an empty result;
\* the value is not normalized (the key of the call stays empty) and neither
\* an index nor the record store decides the result, which is empty even
\* where a scan for "" would find records.
C12_EmptyValueShortCircuit ==
    pc = "ready" =>
        /\ FreshHandle =>
              \A field \in Fields \cup {NoSuchField} :
                 /\ FetchResult(EMPTY, field) = <<>>
                 /\ \A target \in Fields \cup {NoSuchField} :
                       LookupResult(EMPTY, field, target) = <<>>
        /\ last.op \in {"Fetch", "Lookup"} /\ last.value = EMPTY =>
              /\ last.recs = <<>>
              /\ last.vals = <<>>
              /\ last.key = EMPTY

\* Fetch("", prev_symbol) returned nothing, normalization switched off, from
\* a store in which a scan for the empty previous-symbol value finds a record
C12_Witness ==
    /\ last.op = "Fetch"
    /\ last.value = EMPTY
    /\ last.query = FIELD_PREV_SYMBOL
    /\ ~last.norm
    /\ last.recs = <<>>
    /\ ScanFrom(0, FIELD_PREV_SYMBOL, EMPTY) # <<>>

\* Lookup("", symbol, entrez_id) returned nothing from a store that holds a
\* record with the empty symbol and a non-empty Entrez ID
C12_WitnessLookup ==
    /\ last.op = "Lookup"
    /\ last.value = EMPTY
    /\ last.query = FIELD_SYMBOL
    /\ last.target = FIELD_ENTREZ_ID
    /\ last.vals = <<>>
    /\ \E p \in 1..Len(records) :
          /\ Get(records[p], FIELD_SYMBOL) = EMPTY
          /\ Get(records[p], FIELD_ENTREZ_ID) # EMPTY

----------------------------------------------------------------------------
(* C13 *)

Queries == {"Fetch", "Lookup"} \cup WrapperNames

\* C13: a query on a handle that LoadTsv did not build never returns: it
\* aborts, whether the handle is nil or a zero HGNC value.
C13_UnbuiltHandleAborts ==
    last.op \in Queries => pc \in {"ready", "panic"}

\* C13, the nil handle alone: before LoadTsv has returned a handle, and
\* after it has returned nil with an error, a query does not return
C13_NilHandleAborts ==
    last.op \in Queries => ~NilHandle

\* a Lookup was called after LoadTsv failed on a row, and it panicked
C13_WitnessNil ==
    /\ pc = "panic"
    /\ last.op = "Lookup"
    /\ last.value # EMPTY
    /\ records # <<>>

----------------------------------------------------------------------------
(* C14 *)

\* the handle holds exactly what the rows lines give: one record per line,
\* in order, every symbol in the Canonical-Symbol Set, every alias and
\* previous-symbol token a key of the Alias Map with the symbol of a record
\* listing it, and every non-empty value of an indexed field indexed with
\* the positions of the records holding it, in row order
Covers(lines) ==
    /\ recordIdx = Len(lines)
    /\ Len(records) = Len(lines)
    /\ \A i \in 1..Len(lines) : records[i] = line2Record(lines[i], headerMap)
    /\ stdHgncSymbols = {Get(RecordAt(p), FIELD_SYMBOL) : p \in Positions}
    /\ DOMAIN geneSymbolMap = UNION {AliasTokens(RecordAt(p)) : p \in Positions}
    /\ \A a \in DOMAIN geneSymbolMap :
          \E p \in Listing(a) : geneSymbolMap[a] = Get(RecordAt(p), FIELD_SYMBOL)
    /\ DOMAIN caches = IndexedSet
    /\ \A field \in IndexedSet :
          /\ DOMAIN caches[field] =
                {Get(RecordAt(p), field) : p \in Positions} \ {EMPTY}
          /\ \A v \in DOMAIN caches[field] :
                caches[field][v] = Ascending(Holders(field, v))

LoadErrors == {"open_err", "header_err", "scan_err"}

\* C14: LoadTsv returns either a handle with a nil error, and the handle
\* covers every row read, or nil with an error; the error case is returned
\* when the file cannot be opened or decompressed, when there is no header
\* line, and when reading a row fails; no handle comes with an error.
C14_LoadAllOrNothing ==
    last.op = "LoadTsv" =>
        /\ pc = "ready" => last.found /\ last.str = EMPTY /\ Covers(last.vals)
        /\ pc \in LoadErrors => ~last.found /\ last.str # EMPTY
        /\ last.found => pc = "ready"
        /\ last.str # EMPTY => pc \in LoadErrors

\* LoadTsv returned a handle for a file of two rows, one of them with an
\* alias cell
C14_Witness ==
    /\ pc = "ready"
    /\ last.op = "LoadTsv"
    /\ last.found
    /\ Len(last.vals) = 2
    /\ geneSymbolMap # <<>>

\* LoadTsv returned nil and an error after it had read a row
C14_WitnessRowError ==
    /\ pc = "scan_err"
    /\ last.op = "LoadTsv"
    /\ ~last.found
    /\ records # <<>>

----------------------------------------------------------------------------
(* C15 *)

\* the header fields whose column the line lacks
MissingFields(line) ==
    {f \in DOMAIN headerMap : headerMap[f] >= Len(Split(line, TAB))}

\* some index of field lists position p
IndexedUnder(field, p) ==
    /\ field \in DOMAIN caches
    /\ \E v \in DOMAIN caches[field] : p \in Range(caches[field][v])

\* C15: a row with fewer cells than the header does not make load fail (the
\* loop goes on to the next row or to the return of the handle), every
\* record holds an entry for every header field, empty for each field whose
\* column the row lacks, and no index of such a field lists the record.
C15_ShortRowsTolerated ==
    /\ pc = "rows" => ENABLED LoadDone
    /\ \A i \in 1..Len(records) : DOMAIN records[i] = DOMAIN headerMap
    /\ last.op = "LoadTsv" /\ pc \in {"rows", "ready"} =>
          /\ Len(records) = Len(last.vals)
          /\ \A i \in 1..Len(records) : \A f \in MissingFields(last.vals[i]) :
                /\ records[i][f] = EMPTY
                /\ ~IndexedUnder(f, i - 1)

\* LoadTsv returned a handle for a file whose first row has the symbol cell
\* only and whose second row has all four cells, an Entrez ID among them
C15_Witness ==
    /\ pc = "ready"
    /\ last.op = "LoadTsv"
    /\ Len(last.vals) = 2
    /\ FIELD_ENTREZ_ID \in MissingFields(last.vals[1])
    /\ records[1][FIELD_SYMBOL] # EMPTY
    /\ MissingFields(last.vals[2]) = {}
    /\ IndexedUnder(FIELD_ENTREZ_ID, 1)

----------------------------------------------------------------------------
(* C16 *)

\* the values passed for fields other than symbol: padded ones, and strings
\* that are aliases in some loaded stores
OtherValues == QueryValues(FIELD_ENTREZ_ID) \cup QueryValues(FIELD_PREV_SYMBOL)

\* the query fields other than symbol: the header's other fields, one of them
\* indexed, and an indexed and an unindexed field the header lacks
OtherFields ==
    {FIELD_ENTREZ_ID, FIELD_ALIAS_SYMBOL, FIELD_PREV_SYMBOL, FIELD_HGNC_ID,
     NoSuchField}

\* C16: for every query field other than symbol, indexed or not, Fetch and
\* Lookup take the value exactly as given: the result for a non-empty value
\* is the records storing exactly that string in the field, in row order,
\* whatever the flag and the Alias Map are, and the latest such call looked
\* up the value it was given.
C16_NormalizerOnlyForSymbol ==
    pc = "ready" =>
        /\ FreshHandle =>
              \A query \in OtherFields : \A value \in OtherValues \ {EMPTY} :
                 /\ FetchResult(value, query) = Ascending(Holders(query, value))
                 /\ \A target \in TargetFields :
                       LookupResult(value, query, target) =
                           Project(Ascending(Holders(query, value)), target)
        /\ /\ last.op \in {"Fetch", "Lookup"}
           /\ last.query # FIELD_SYMBOL
           /\ last.value # EMPTY
           => /\ last.key = last.value
              /\ last.op = "Fetch" =>
                    last.recs = Ascending(Holders(last.query, last.value))
              /\ last.op = "Lookup" =>
                    last.vals = Project(Ascending(Holders(last.query, last.value)),
                                        last.target)

\* with normalization enabled and "C" an alias of a symbol that no record
\* has as previous symbol, Fetch("C", prev_symbol) returned the records whose
\* previous symbol is "C"
C16_Witness ==
    /\ last.op = "Fetch"
    /\ last.query = FIELD_PREV_SYMBOL
    /\ last.norm
    /\ last.value \in DOMAIN geneSymbolMap
    /\ Holders(FIELD_PREV_SYMBOL, geneSymbolMap[last.value]) = {}
    /\ last.recs # <<>>

\* a padded Entrez ID found nothing although a record holds the trimmed ID
C16_WitnessPadded ==
    /\ last.op = "Fetch"
    /\ last.query = FIELD_ENTREZ_ID
    /\ last.value # TrimSpace(last.value)
    /\ last.recs = <<>>
    /\ Holders(FIELD_ENTREZ_ID, TrimSpace(last.value)) # {}

----------------------------------------------------------------------------
(* C17 *)

\* the latest call classified gene as field
Classified(gene, field) ==
    /\ last.op = "classifyGeneStringSystem"
    /\ last.value = gene
    /\ last.query = field

\* C17: the classifier gives every string exactly one of five fields, by the
\* first rule that matches: the prefix "HGNC:" gives hgnc_id, else the prefix
\* "ENSG" ensembl_gene_id, else the prefix "uc" ucsc_id, else a string that
\* parses as an integer entrez_id, else symbol; and "HGNC:1100",
\* "ENSG00000012048", "uc002ict.4", "7157" and "BRCA1" get hgnc_id,
\* ensembl_gene_id, ucsc_id, entrez_id and symbol.
C17_ClassifierRules ==
    last.op = "classifyGeneStringSystem" =>
        LET gene == last.value
            field == last.query
            hgnc == HasPrefix(gene, PrefixHGNC)
            ensg == HasPrefix(gene, PrefixENSG)
            uc == HasPrefix(gene, PrefixUc)
        IN  /\ field \in {FIELD_HGNC_ID, FIELD_ENSEMBL_GENE_ID, FIELD_UCSC_ID,
                          FIELD_ENTREZ_ID, FIELD_SYMBOL}
            /\ hgnc => field = FIELD_HGNC_ID
            /\ ~hgnc /\ ensg => field = FIELD_ENSEMBL_GENE_ID
            /\ ~hgnc /\ ~ensg /\ uc => field = FIELD_UCSC_ID
            /\ ~hgnc /\ ~ensg /\ ~uc /\ AtoiOk(gene) => field = FIELD_ENTREZ_ID
            /\ ~hgnc /\ ~ensg /\ ~uc /\ ~AtoiOk(gene) => field = FIELD_SYMBOL
            /\ gene = PrefixHGNC \o <<"1", "1", "0", "0">> => field = FIELD_HGNC_ID
            /\ gene = PrefixENSG \o <<"0", "0", "0", "0", "0", "0", "1", "2", "0",
                                      "4", "8">> => field = FIELD_ENSEMBL_GENE_ID
            /\ gene = PrefixUc \o <<"0", "0", "2", "i", "c", "t", ".", "4">> =>
                  field = FIELD_UCSC_ID
            /\ gene = <<"7", "1", "5", "7">> => field = FIELD_ENTREZ_ID
            /\ gene = <<"B", "R", "C", "A", "1">> => field = FIELD_SYMBOL

\* "uc002ict.4" was classified as ucsc_id
C17_Witness ==
    Classified(PrefixUc \o <<"0", "0", "2", "i", "c", "t", ".", "4">>, FIELD_UCSC_ID)

\* "7157" was classified as entrez_id
C17_WitnessEntrez == Classified(<<"7", "1", "5", "7">>, FIELD_ENTREZ_ID)

\* "HGNC" without the colon, before digits, was classified as symbol
C17_WitnessSymbol ==
    Classified(<<"H", "G", "N", "C", "1", "1", "0", "0">>, FIELD_SYMBOL)

----------------------------------------------------------------------------
(* C18 *)

\* gene has none of the three prefixes
NoPrefix(gene) ==
    /\ ~HasPrefix(gene, PrefixHGNC)
    /\ ~HasPrefix(gene, PrefixENSG)
    /\ ~HasPrefix(gene, PrefixUc)

\* a non-empty run of decimal digits
AllDigits(s) == s # <<>> /\ \A i \in 1..Len(s) : s[i] \in Digits

\* gene without one leading sign
Unsigned(gene) ==
    IF gene # <<>> /\ gene[1] \in {"+", "-"} THEN Tail(gene) ELSE gene

C18_WitnessOverflow == Classified(MinIntDigits, FIELD_SYMBOL)

----------------------------------------------------------------------------
(* C19 *)

\* the record at p has a value in field that no other record has
HeldAlone(p, field) ==
    /\ Get(RecordAt(p), field) # EMPTY
    /\ Holders(field, Get(RecordAt(p), field)) = {p}

\* the record at p has a symbol, an HGNC ID and an Entrez ID of its own
Identified(p) ==
    /\ HeldAlone(p, FIELD_SYMBOL)
    /\ HeldAlone(p, FIELD_HGNC_ID)
    /\ HeldAlone(p, FIELD_ENTREZ_ID)

\* what the three wrappers return for the record itself
ManeOf(p) == [str |-> Get(RecordAt(p), FIELD_MANE_SELECT), found |-> TRUE]
RefseqOf(p) == [str |-> Get(RecordAt(p), FIELD_REFSEQ_ACCESSION), found |-> TRUE]
CodingOf(p) == HasPrefix(Get(RecordAt(p), FIELD_LOCUS_GROUP), PrefixCoding)

\* the latest call was wrapper name and returned out
Returns(name, out) ==
    last.op = name => last.str = out.str /\ last.found = out.found

\* the identifiers of the record at p as the claim lists them: its symbol,
\* HGNC ID and Entrez ID, its Ensembl and UCSC ID, and its aliases
IdsAsStated(p) ==
    {Get(RecordAt(p), f) : f \in {FIELD_SYMBOL, FIELD_HGNC_ID, FIELD_ENTREZ_ID}}
    \cup ({Get(RecordAt(p), f) : f \in {FIELD_ENSEMBL_GENE_ID, FIELD_UCSC_ID}}
          \ {EMPTY})
    \cup AliasTokens(RecordAt(p))

Own(p, field) ==
    /\ HeldAlone(p, field)
    /\ classifyGeneStringSystem(Get(RecordAt(p), field)) = field

\* the identifiers of the record at p that lead to it with the flag at
\* enabled: each identifier of its own, and with normalization enabled each
\* alias that is classified as a symbol and resolves to the record's symbol
Ids(p, enabled) ==
    {Get(RecordAt(p), f) :
        f \in {f \in {FIELD_SYMBOL, FIELD_HGNC_ID, FIELD_ENTREZ_ID,
                      FIELD_ENSEMBL_GENE_ID, FIELD_UCSC_ID} : Own(p, f)}}
    \cup {a \in AliasTokens(RecordAt(p)) :
            /\ enabled
            /\ classifyGeneStringSystem(a) = FIELD_SYMBOL
            /\ Own(p, FIELD_SYMBOL)
            /\ normalizeGiven(TRUE, a) = Get(RecordAt(p), FIELD_SYMBOL)}

----------------------------------------------------------------------------
(* C20 *)

\* the trimmed form of value is neither in the Canonical-Symbol Set nor a key
\* of the Alias Map
Unknown(value) ==
    /\ TrimSpace(value) \notin stdHgncSymbols
    /\ TrimSpace(value) \notin DOMAIN geneSymbolMap

\* the strings normalized: those passed as symbols, and two more
SymbolValues == QueryValues(FIELD_SYMBOL) \cup {<<"D">>, <<TAB, "D", SP>>}

\* C20: for a string whose trimmed form is neither a current symbol nor an
\* alias, normalizeSymbol returns the trimmed string in either state of the
\* flag, and Fetch and Lookup on the symbol field return an empty result.
C20_UnknownPassesThrough ==
    pc = "ready" =>
        /\ FreshHandle =>
              \A value \in SymbolValues :
                 Unknown(value) =>
                    /\ normalizeSymbol(value) = TrimSpace(value)
                    /\ normalizeGiven(TRUE, value) = TrimSpace(value)
                    /\ normalizeGiven(FALSE, value) = TrimSpace(value)
                    /\ FetchResult(value, FIELD_SYMBOL) = <<>>
                    /\ \A target \in TargetFields :
                          LookupResult(value, FIELD_SYMBOL, target) = <<>>
        /\ SymbolCall /\ Unknown(last.value) =>
              /\ last.key = TrimSpace(last.value)
              /\ last.recs = <<>>
              /\ last.vals = <<>>

\* a padded string that no loaded record has as symbol or alias was fetched
\* by symbol, with normalization enabled, from a store of two records: the key
\* looked up was the string trimmed, and nothing was found
C20_Witness ==
    /\ last.op = "Fetch"
    /\ last.query = FIELD_SYMBOL
    /\ last.norm
    /\ last.value # EMPTY
    /\ Unknown(last.value)
    /\ last.key # last.value
    /\ last.key # EMPTY
    /\ last.recs = <<>>
    /\ Len(records) = 2

----------------------------------------------------------------------------
(* C21 *)

\* how often x occurs in seq
Occurrences(seq, x) == Cardinality({i \in 1..Len(seq) : seq[i] = x})

\* C21: after load, for every indexed field F and every record at position p
\* whose value v in F is not empty, p occurs exactly once in index[F][v] and
\* in no other list of F's index; the empty string is a key of no index.
C21_IndexComplete ==
    pc = "ready" /\ FreshHandle =>
        \A field \in IndexedSet :
            /\ EMPTY \notin DOMAIN caches[field]
            /\ \A p \in Positions :
                  LET v == Get(RecordAt(p), field)
                  IN  v # EMPTY =>
                         /\ v \in DOMAIN caches[field]
                         /\ Occurrences(caches[field][v], p) = 1
                         /\ \A w \in DOMAIN caches[field] \ {v} :
                               Occurrences(caches[field][w], p) = 0

\* load has returned a store of two records with different symbols and the
\* same Entrez ID, so the Entrez ID's list has both positions; a one-cell row
\* would add a record with no Entrez ID
C21_Witness ==
    /\ pc = "ready"
    /\ Len(records) = 2
    /\ Get(records[1], FIELD_SYMBOL) # Get(records[2], FIELD_SYMBOL)
    /\ Get(records[1], FIELD_SYMBOL) # EMPTY
    /\ Get(records[2], FIELD_SYMBOL) # EMPTY
    /\ Get(records[1], FIELD_ENTREZ_ID) # EMPTY
    /\ Len(caches[FIELD_ENTREZ_ID][Get(records[1], FIELD_ENTREZ_ID)]) = 2

\* load has returned a store with a record whose symbol is empty and whose
\* Entrez ID is not
C21_WitnessEmptyValue ==
    /\ pc = "ready"
    /\ \E p \in Positions :
          /\ Get(RecordAt(p), FIELD_SYMBOL) = EMPTY
          /\ Get(RecordAt(p), FIELD_ENTREZ_ID) # EMPTY

----------------------------------------------------------------------------
(* C22 *)

\* C22: after load, for every alias or previous-symbol token t, the Alias
\* Map holds for t the current symbol of the last record in row order whose
\* alias_symbol or prev_symbol cell has t, whatever earlier records had.
C22_LastWriterWins ==
    pc = "ready" /\ FreshHandle =>
        \A p \in Positions : \A t \in AliasTokens(RecordAt(p)) :
            /\ t \in DOMAIN geneSymbolMap
            /\ geneSymbolMap[t] = Get(RecordAt(Max(Listing(t))), FIELD_SYMBOL)

\* load has returned a store whose two records have different symbols and
\* list the same token; the Alias Map holds the second record's symbol for it
C22_Witness ==
    /\ pc = "ready"
    /\ Len(records) = 2
    /\ Get(records[1], FIELD_SYMBOL) # Get(records[2], FIELD_SYMBOL)
    /\ \E t \in AliasTokens(records[1]) \cap AliasTokens(records[2]) :
          geneSymbolMap[t] = Get(records[2], FIELD_SYMBOL)

----------------------------------------------------------------------------
(* C23 *)

\* s has neither a first nor a last character in set
NotSurroundedBy(s, set) == s = EMPTY \/ (s[1] \notin set /\ s[Len(s)] \notin set)

\* C23: for every raw cell, the value stored in the record has neither
\* surrounding whitespace nor surrounding double quotes, whatever the order
\* in which quotes and padding are nested in the raw cell.
C23_StoredTrimmedAndUnquoted ==
    last.op = "line2Record" =>
        /\ NotSurroundedBy(last.key, WhiteSpace)
        /\ NotSurroundedBy(last.key, {QUOTE})

\* C23, the part the code keeps: the stored value has no surrounding
\* whitespace, and it is the raw cell without its outermost quotes and then
\* without the whitespace around what is left
C23_StoredTrimmed ==
    last.op = "line2Record" =>
        /\ NotSurroundedBy(last.key, WhiteSpace)
        /\ last.key = TrimSpace(Trim(last.value, {QUOTE}))

\* the cell of a quoted, padded A was stored as A
C23_WitnessQuotedPadded ==
    /\ last.op = "line2Record"
    /\ last.value = <<QUOTE, SP, "A", QUOTE>>
    /\ last.key = <<"A">>

----------------------------------------------------------------------------
(* C24 *)

\* each element of seq is greater than the one before it
StrictlyIncreasing(seq) == \A i \in 1..(Len(seq) - 1) : seq[i] < seq[i + 1]

\* C24: for every value and field, indexed or scanned, the records returned
\* by Fetch are at strictly increasing positions of the record store, so none
\* appears twice, and the values returned by Lookup are the target values of
\* the matching records taken in increasing position.
C24_ResultsInRowOrder ==
    /\ last.op = "Fetch" =>
          /\ StrictlyIncreasing(last.recs)
          /\ Range(last.recs) \subseteq Positions
    /\ last.op = "Lookup" =>
          last.vals = IF last.key = EMPTY THEN <<>>
                      ELSE Project(Ascending(Holders(last.query, last.key)),
                                   last.target)

\* a Fetch on an indexed field has returned two records
C24_Witness ==
    /\ last.op = "Fetch"
    /\ last.query \in IndexedSet
    /\ Len(last.recs) = 2

\* a Fetch on a field that is scanned has returned two records
C24_WitnessScanned ==
    /\ last.op = "Fetch"
    /\ last.query \notin IndexedSet
    /\ Len(last.recs) = 2

\* a Lookup has returned the values of two records, and they differ
C24_WitnessLookup ==
    /\ last.op = "Lookup"
    /\ Len(last.vals) = 2
    /\ last.vals[1] # last.vals[2]

----------------------------------------------------------------------------
(* C25 *)

\* the non-empty pieces of cell between one pipe, or the start, and the next pipe, or
\* the end, found by trying every pair of ends
PipePieces(cell) ==
    {SubSeq(cell, i, j) :
        <<i, j>> \in {ij \in (1..Len(cell)) \X (1..Len(cell)) :
                        /\ ij[1] <= ij[2]
                        /\ \A k \in ij[1]..ij[2] : cell[k] # PIPE
                        /\ ij[1] = 1 \/ cell[ij[1] - 1] = PIPE
                        /\ ij[2] = Len(cell) \/ cell[ij[2] + 1] = PIPE}}

\* the keys the alias_symbol and prev_symbol cells of the records give
PipeKeys ==
    UNION {{TrimSpace(piece) :
               piece \in PipePieces(Get(RecordAt(p), FIELD_ALIAS_SYMBOL))
                          \cup PipePieces(Get(RecordAt(p), FIELD_PREV_SYMBOL))}
           : p \in Positions} \ {EMPTY}

\* C25: after load the keys of the Alias Map are exactly the non-empty,
\* whitespace-trimmed pieces that the pipes cut the alias_symbol and
\* prev_symbol cells of the records into; a comma or another character cuts
\* nothing, and an empty piece ("B||C", a trailing pipe) gives no key.
C25_KeysFromPipeSplitting ==
    pc = "ready" =>
        /\ DOMAIN geneSymbolMap = PipeKeys
        /\ \A key \in DOMAIN geneSymbolMap :
              /\ key # EMPTY
              /\ PIPE \notin Range(key)
              /\ NotSurroundedBy(key, WhiteSpace)

\* load has returned a store with a record whose alias cell is B,C and one
\* whose alias cell ends in a pipe: B,C is one key, C alone is none
C25_Witness ==
    /\ pc = "ready"
    /\ \E p \in Positions : Get(RecordAt(p), FIELD_ALIAS_SYMBOL) = <<"B", COMMA, "C">>
    /\ \E p \in Positions : Get(RecordAt(p), FIELD_ALIAS_SYMBOL) = <<"B", PIPE>>
    /\ <<"B", COMMA, "C">> \in DOMAIN geneSymbolMap
    /\ <<"B">> \in DOMAIN geneSymbolMap
    /\ <<"C">> \notin DOMAIN geneSymbolMap

----------------------------------------------------------------------------
(* C26 *)

\* what the call of thread record c returns when every read of the flag
\* gives enabled
AloneGiven(enabled, c) ==
    IF c.value = EMPTY THEN <<>>
    ELSE LET key == IF c.query = FIELD_SYMBOL
                    THEN normalizeGiven(enabled, c.value) ELSE c.value
         IN  IF c.op = "Fetch" THEN FetchByKey(key, c.query)
             ELSE LookupByKey(key, c.query, c.target)

\* every call that has returned, overlapped by a setter or not, returned its
\* result with normalization enabled or its result with it disabled
EnabledOrDisabled ==
    \A t \in Threads :
        th[t].pc = "done" =>
            th[t].acc \in {AloneGiven(TRUE, th[t]), AloneGiven(FALSE, th[t])}

\* once load has returned, no step changes the stores or the indexes
StoresStay ==
    pc = "ready" =>
        UNCHANGED <<headerMap, records, geneSymbolMap, stdHgncSymbols, caches>>

\* C26: under every interleaving of SetAutoNormSymbol calls with the steps of
\* Fetch and Lookup calls in flight, each query returns exactly its result
\* with normalization enabled or exactly its result with normalization
\* disabled, and the stores and the indexes stay as load left them.
C26_NoMixedResult ==
    /\ []EnabledOrDisabled
    /\ [][StoresStay]_vars

\* a call that a setter overlapped has returned its result with
\* normalization enabled, which is not its result with it disabled, while
\* the flag is off
C26_Witness ==
    \E t \in Threads :
        /\ th[t].pc = "done"
        /\ th[t].raced
        /\ ~autoNormSymbol
        /\ th[t].acc = AloneGiven(TRUE, th[t])
        /\ th[t].acc # AloneGiven(FALSE, th[t])

----------------------------------------------------------------------------
(* C27 *)

\* the Alias Map sends x to y, y to z, and z is not y
Chain(x, y, z) ==
    /\ x \in DOMAIN geneSymbolMap /\ geneSymbolMap[x] = y
    /\ y \in DOMAIN geneSymbolMap /\ geneSymbolMap[y] = z
    /\ z # y

\* C27: after load every value of the Alias Map is in the Canonical-Symbol
\* Set and has no surrounding whitespace; hence, in either state of the flag,
\* normalizing a string twice gives what normalizing it once gives, and the
\* normalizer returns the trimmed string or what the Alias Map holds for it,
\* never the alias of an alias.
C27_NormalizeIdempotent ==
    pc = "ready" /\ FreshHandle =>
        /\ \A a \in DOMAIN geneSymbolMap :
              /\ geneSymbolMap[a] \in stdHgncSymbols
              /\ NotSurroundedBy(geneSymbolMap[a], WhiteSpace)
        /\ \A x \in SymbolValues :
              /\ normalizeSymbol(normalizeSymbol(x)) = normalizeSymbol(x)
              /\ \A enabled \in BOOLEAN :
                    normalizeGiven(enabled, normalizeGiven(enabled, x))
                        = normalizeGiven(enabled, x)
              /\ \/ normalizeSymbol(x) = TrimSpace(x)
                 \/ /\ TrimSpace(x) \in DOMAIN geneSymbolMap
                    /\ normalizeSymbol(x) = geneSymbolMap[TrimSpace(x)]

\* load has returned a store whose Alias Map sends C to B and B to A, with
\* normalization enabled: C is normalized to B, and B to itself
C27_Witness ==
    /\ pc = "ready"
    /\ FreshHandle
    /\ autoNormSymbol
    /\ Chain(<<"C">>, <<"B">>, <<"A">>)
    /\ normalizeSymbol(<<"C">>) = <<"B">>
    /\ normalizeSymbol(<<"B">>) = <<"B">>

----------------------------------------------------------------------------
(* C28 *)

\* C28: after load, for every indexed field F, every key v and every
\* position p in index[F][v], p is a position of the record store, the record
\* at p stores exactly v in F, and the list is strictly increasing; the index
\* has a map, empty or not, for each of the 7 indexed fields and no other.
C28_IndexSound ==
    pc = "ready" /\ FreshHandle =>
        /\ DOMAIN caches = IndexedSet
        /\ Cardinality(DOMAIN caches) = 7
        /\ \A field \in DOMAIN caches : \A v \in DOMAIN caches[field] :
              /\ \A i \in 1..Len(caches[field][v]) :
                    /\ caches[field][v][i] \in Positions
                    /\ Get(RecordAt(caches[field][v][i]), field) = v
              /\ StrictlyIncreasing(caches[field][v])

\* load has returned a store of two records: the symbol index has two keys,
\* an Entrez ID's list has both positions, and the HGNC ID index, whose column
\* the file lacks, is an empty map
C28_Witness ==
    /\ pc = "ready"
    /\ Len(records) = 2
    /\ Cardinality(DOMAIN caches[FIELD_SYMBOL]) = 2
    /\ \E v \in DOMAIN caches[FIELD_ENTREZ_ID] : caches[FIELD_ENTREZ_ID][v] = <<0, 1>>
    /\ caches[FIELD_HGNC_ID] = <<>>

----------------------------------------------------------------------------
(* C29 *)

\* the wrappers that hand back the first value of a Lookup as it is
PlainWrappers ==
    {"SymbolToEntrezID", "EntrezIDToSymbol", "SymbolToEnsg", "EnsgToSymbol",
     "SymbolToUcscID", "UcscIDToSymbol", "GetManeSelect", "GeneRefseqAccs"}

\* the value the last wrapper passed to Lookup
PassedValue ==
    IF last.op = "EnsgToSymbol" THEN Split(last.value, ".")[1] ELSE last.value

\* the positions of the records that the last wrapper's Lookup matched, by
\* brute force over the record store
Matched ==
    LET key == IF last.query = FIELD_SYMBOL
               THEN normalizeGiven(last.norm, PassedValue) ELSE PassedValue
    IN  IF PassedValue = EMPTY \/ key = EMPTY THEN {}
        ELSE Holders(last.query, key)

\* C29: each of the eight wrappers returns found = true exactly when its
\* Lookup has a match, and then the target value of the matching record at
\* the lowest position, the empty string included; with no match it returns
\* the empty string and false.
C29_FoundByMatch ==
    last.op \in PlainWrappers =>
        /\ last.found <=> Matched # {}
        /\ last.found <=> Len(LookupResult(PassedValue, last.query, last.target)) > 0
        /\ last.found => last.str = Get(RecordAt(Min(Matched)), last.target)
        /\ ~last.found => last.str = EMPTY

\* SymbolToEnsg was called with the symbol of a record that has no Ensembl
\* ID: it returned the empty string and true
C29_Witness ==
    /\ last.op = "SymbolToEnsg"
    /\ last.found
    /\ last.str = EMPTY

\* EnsgToSymbol was called with an Ensembl ID two records share, a version
\* suffix attached: it returned the symbol of the first of them
C29_WitnessLowest ==
    /\ last.op = "EnsgToSymbol"
    /\ last.value # PassedValue
    /\ Cardinality(Matched) = 2
    /\ last.found
    /\ last.str = Get(records[1], FIELD_SYMBOL)
    /\ last.str # Get(records[2], FIELD_SYMBOL)

\* a wrapper was called with a string no record matches
C29_WitnessNoMatch ==
    /\ last.op \in PlainWrappers
    /\ Len(records) = 2
    /\ ~last.found

----------------------------------------------------------------------------
(* C30 *)

\* every record at a position of seq has a value in field
NonEmptyIn(seq, field) ==
    \A i \in 1..Len(seq) : Get(RecordAt(seq[i]), field) # EMPTY

\* C30: for every value, field and state of the flag, every record that
\* Fetch(v, F) returns has a non-empty value in F; a symbol query of
\* whitespace only, or by an alias of a record whose symbol is empty, returns
\* nothing, also when the empty string is in the Canonical-Symbol Set.
C30_NoEmptyKeyResult ==
    /\ last.op = "Fetch" =>
          /\ NonEmptyIn(last.recs, last.query)
          /\ last.key = EMPTY => last.recs = <<>>
    /\ pc = "ready" /\ FreshHandle =>
          \A query \in QueryFields : \A value \in QueryValues(query) :
              /\ NonEmptyIn(FetchResult(value, query), query)
              /\ QueryKey(value, query) = EMPTY => FetchResult(value, query) = <<>>

\* with normalization enabled, a string of whitespace was fetched by symbol
\* from a store that has a record with an empty symbol, the empty string being
\* in the Canonical-Symbol Set: nothing was returned
C30_Witness ==
    /\ last.op = "Fetch"
    /\ last.query = FIELD_SYMBOL
    /\ last.value = <<SP>>
    /\ last.norm
    /\ EMPTY \in stdHgncSymbols
    /\ Holders(FIELD_SYMBOL, EMPTY) # {}
    /\ last.recs = <<>>

\* with normalization enabled, an alias that the Alias Map sends to the empty
\* symbol was fetched by symbol: the key was empty and nothing was returned
C30_WitnessAlias ==
    /\ last.op = "Fetch"
    /\ last.query = FIELD_SYMBOL
    /\ last.norm
    /\ last.value \in DOMAIN geneSymbolMap
    /\ last.value \notin stdHgncSymbols
    /\ geneSymbolMap[last.value] = EMPTY
    /\ last.key = EMPTY
    /\ last.recs = <<>>

============================================================================
